---- MODULE Spec2Model ----
(***************************************************************************)
(* prow-helper: the monitor loop (cmd/prow-helper monitor.go) and the      *)
(* interactive selector (internal/selector).                               *)
(*                                                                         *)
(* Spec        the monitor loop: monitorJobs, checkAllStatuses and its     *)
(*             probe goroutines, notifyCompletions, printStatusTable,      *)
(*             allEntriesDone, printFinalSummary, the ticker and signals.  *)
(* ScenarioSpec the same loop with the probe outcomes of the end-to-end    *)
(*             scenario and no interrupt.                                  *)
(* PickerSpec  the selector's bubbletea model: newModel, Update, refilter. *)
(* MatchSpec   fuzzyMatch applied to bounded queries and labels.           *)
(***************************************************************************)
EXTENDS Integers, Sequences, FiniteSets, TLC

\* ------------------------------------------------------------------ bounds
MaxEntries == 2      \* monitored jobs
MaxRounds == 3       \* poll rounds (the initial one included)
MaxItems == 2        \* items of a selector list
MaxQueryLen == 1     \* characters of the selector's query
MaxMatchQuery == 2   \* characters of a query given to fuzzyMatch
MaxMatchTarget == 3  \* characters of a target given to fuzzyMatch
MaxJobs == 2         \* jobs of a fetched list
MaxChecks == 3       \* calls of CheckJobStatus in one Watch
MaxTimestamp == 1    \* the timestamps a finished.json carries
MaxViewItems == 20   \* items of a list whose viewport is computed

VARIABLES
    \* --- monitor loop
    entries,      \* []*monitorEntry: status, err, notified
    pc,           \* position of monitorJobs
    task,         \* the probe goroutine of each entry in the current round
    mu,           \* checkAllStatuses' mutex: 0 free, else the holder's index
    sigPending,   \* sigCh (capacity 1) holds a signal
    tickPending,  \* ticker.C (capacity 1) holds a tick
    round,        \* poll rounds started so far
    sinkLog,      \* calls of sendNotificationWithConfig, in order
    table,        \* the rows printStatusTable printed last
    summary,      \* printFinalSummary's counts once printed
    ret,          \* monitorJobs' return value
    \* --- selector
    m,            \* the bubbletea model of selector.Run
    refreshCmd,   \* the refresh command: "none", "running", or "queued"
    exited,       \* the bubbletea program has quit and Run has returned
    runResult,    \* what selector.Run returned
    \* --- fuzzyMatch on its own
    mQuery,       \* the query argument
    mTarget,      \* the target argument
    mDone,        \* fuzzyMatch has been called
    mResult,      \* what it returned
    \* --- runMonitor's setup
    rmPc,         \* position of runMonitor
    rmFetch,      \* what prowapi.FetchJobs returned
    rmEntries,    \* runMonitor's entries
    rmErr,        \* the error runMonitor returned
    rmMsg,        \* the refreshMsg refreshFn's result is queued as
    rmSelected,   \* the entries runMonitor hands to monitorJobs
    \* --- watcher.Watch
    wPc,          \* position of Watch
    wResp,        \* the response the last CheckJobStatus call got
    wOut,         \* what the last CheckJobStatus call returned
    wCheckTick,   \* checkTicker.C holds a tick
    wCountTick,   \* countdownTicker.C holds a tick
    wChecks,      \* calls of CheckJobStatus so far
    wRet,         \* what Watch returned
    \* --- MergeConfig on its own
    mergeCall,    \* the arguments of a MergeConfig call and its result
    \* --- the selector's refresh window, observed
    reqKeys,      \* the keys selected when the last refresh was requested
    \* --- the selector's viewport on its own
    viewCall,     \* what visibleLines and viewportStart returned for m
    \* --- refilter on its own
    refilterCall  \* the calls of m.refilter() so far and what the first left

monitorVars == <<entries, pc, task, mu, sigPending, tickPending, round,
                 sinkLog, table, summary, ret>>

pickerVars == <<m, refreshCmd, exited, runResult>>

matchVars == <<mQuery, mTarget, mDone, mResult>>

setupVars == <<rmPc, rmFetch, rmEntries, rmErr, rmMsg, rmSelected>>

watchVars == <<wPc, wResp, wOut, wCheckTick, wCountTick, wChecks, wRet>>

vars == <<monitorVars, pickerVars, matchVars, setupVars, watchVars, mergeCall, reqKeys, viewCall, refilterCall>>

\* ------------------------------------------------------------ monitor data

\* *watcher.JobStatus: nil, or the value CheckJobStatus builds.
NilStatus == [isNil |-> TRUE, Finished |-> FALSE, Passed |-> FALSE]
JobStatus(passed) == [isNil |-> FALSE, Finished |-> TRUE, Passed |-> passed]

\* What watcher.CheckJobStatus returns: (nil, nil), (&JobStatus{...}, nil)
\* with Passed true or false, or (nil, err).
ProbeOutcomes == {"running", "passed", "failed", "error"}

\* A monitorEntry as buildEntriesAndItems creates it.
NewEntry == [status |-> NilStatus, err |-> FALSE, notified |-> FALSE]

IsFinished(e) == ~e.status.isNil /\ e.status.Finished

IdleTask == [st |-> "idle", res |-> "none"]

Indices == 1..Len(entries)

\* Variant: every entry is probed in every round.
NeedsProbeAll(e) == TRUE

\* Variant: an entry with a recorded error is skipped like a finished one.
NeedsProbeSkipErrored(e) == ~e.err /\ ~(~e.status.isNil /\ e.status.Finished)

\* Variant: only an entry that passed is skipped; a failed one is probed
\* again.
NeedsProbeUnlessPassed(e) == ~(~e.status.isNil /\ e.status.Finished /\ e.status.Passed)

\* checkAllStatuses: the entries a round skips ("already done").
NeedsProbe(e) == ~(~e.status.isNil /\ e.status.Finished)

\* The goroutine's critical section: what it writes to its entry.
ApplyResult(e, res) ==
    IF res = "error" THEN [e EXCEPT !.err = TRUE]
    ELSE IF res # "running" THEN [e EXCEPT !.status = JobStatus(res = "passed")]
    ELSE e

\* Variant: checkAllStatuses returns without waiting for its goroutines.
WaitGroupNoWait == TRUE

\* wg.Wait() returns once every goroutine of the round has called wg.Done.
WaitGroupZero == \A i \in Indices : task[i].st \in {"idle", "done"}

\* Variant: the notified guard is missing.
ShouldNotifyNoGuard(e) == ~(e.status.isNil \/ ~e.status.Finished)

\* Variant: only the entries that passed are notified.
ShouldNotifyPassedOnly(e) ==
    /\ ~e.notified
    /\ ~(e.status.isNil \/ ~e.status.Finished)
    /\ e.status.Passed

\* notifyCompletions: the entries it notifies.
ShouldNotify(e) ==
    /\ ~e.notified
    /\ ~(e.status.isNil \/ ~e.status.Finished)

\* Variant: only a finished status counts as done.
EntryDoneFinishedOnly(e) == ~(e.status.isNil \/ ~e.status.Finished)

\* allEntriesDone: the per-entry test.
EntryDone(e) == ~(~e.err /\ (e.status.isNil \/ ~e.status.Finished))

\* Variant: the termination test is skipped until a tick has been handled.
allEntriesDoneAfterTick == round > 1 /\ \A i \in Indices : EntryDone(entries[i])

\* Variant: the loop never finds the entries all done.
allEntriesDoneNever == FALSE

allEntriesDone == \A i \in Indices : EntryDone(entries[i])

\* printStatusTable: the status column of one row.
StatusLabel(e) ==
    IF e.err THEN "failed (error)"
    ELSE IF e.status.isNil \/ ~e.status.Finished THEN "running"
    ELSE IF e.status.Passed THEN "succeeded"
    ELSE "failed"

\* Variant: any non-nil status is counted as passed.
SummaryClassAnyStatus(e) ==
    IF e.err THEN "errored"
    ELSE IF ~e.status.isNil THEN "passed"
    ELSE "failed"

\* printFinalSummary: the class an entry is counted under.
SummaryClass(e) ==
    IF e.err THEN "errored"
    ELSE IF ~e.status.isNil /\ e.status.Passed THEN "passed"
    ELSE "failed"

CountClass(c) == Cardinality({i \in Indices : SummaryClass(entries[i]) = c})

NoSummary == [printed |-> FALSE, passed |-> 0, failed |-> 0, errored |-> 0]

FinalSummary ==
    [printed |-> TRUE, passed |-> CountClass("passed"),
     failed |-> CountClass("failed"), errored |-> CountClass("errored")]

\* The notifications notifyCompletions sends, in entry order, from index i on;
\* ok[i] tells whether the sink delivers the one of entry i.
RECURSIVE NotifyFrom(_, _, _)
NotifyFrom(es, i, ok) ==
    IF i > Len(es) THEN <<>>
    ELSE IF ShouldNotify(es[i])
         THEN <<[job |-> i, passed |-> es[i].status.Passed, delivered |-> ok[i]]>>
                 \o NotifyFrom(es, i + 1, ok)
         ELSE NotifyFrom(es, i + 1, ok)

\* Variant: an entry is marked notified only when the sink delivered.
NotifiedAfterIfDelivered(e, delivered) ==
    IF ShouldNotify(e) /\ delivered THEN [e EXCEPT !.notified = TRUE] ELSE e

\* notifyCompletions' loop body: the entry after its turn, the sink having
\* delivered or not.
NotifiedAfter(e, delivered) ==
    IF ShouldNotify(e) THEN [e EXCEPT !.notified = TRUE] ELSE e

\* The channels monitorJobs' select receives from.
SelectCases == {"sigCh", "ticker.C"}

\* Variant: a receive leaves the value in the channel.
AfterReceivePeek(pending) == pending

\* <-ch on a channel of capacity 1 that holds a value: whether it still holds
\* one after the receive.
AfterReceive(pending) == FALSE

\* Variant: the signal case only leaves the select, not the loop.
AfterSignalBreak == "loop"

\* The pc monitorJobs continues at after "case <-sigCh".
AfterSignal == "interrupted"

\* ------------------------------------------------------------ selector data

\* Strings are sequences of one-character strings.
LowerChar(c) ==
    CASE c = "A" -> "a"
      [] c = "B" -> "b"
      [] c = "N" -> "n"
      [] c = "O" -> "o"
      [] c = "V" -> "v"
      [] OTHER -> c

\* strings.ToLower
ToLower(str) == [i \in 1..Len(str) |-> LowerChar(str[i])]

\* substr occurs in str at offset i (0-based).
MatchesAt(str, substr, i) == \A k \in 1..Len(substr) : str[i + k] = substr[k]

\* strings.Index: the first offset at which substr occurs in str, from i on,
\* or -1.
RECURSIVE IndexFrom(_, _, _)
IndexFrom(str, substr, i) ==
    IF i + Len(substr) > Len(str) THEN -1
    ELSE IF MatchesAt(str, substr, i) THEN i
    ELSE IndexFrom(str, substr, i + 1)

\* strings.Contains
Contains(str, substr) == IndexFrom(str, substr, 0) >= 0

\* The ordered-subsequence matching of the selector's earlier version.
RECURSIVE SubsequenceFrom(_, _, _, _)
SubsequenceFrom(q, t, qi, ti) ==
    IF ti > Len(t) \/ qi > Len(q) THEN qi > Len(q)
    ELSE IF t[ti] = q[qi] THEN SubsequenceFrom(q, t, qi + 1, ti + 1)
    ELSE SubsequenceFrom(q, t, qi, ti + 1)

\* Variant: every character of query appears, in order, in target.
fuzzyMatchSubsequence(query, target) ==
    IF query = <<>> THEN TRUE
    ELSE SubsequenceFrom(ToLower(query), ToLower(target), 1, 1)

\* fuzzyMatch: query is a case-insensitive substring of target.
fuzzyMatch(query, target) ==
    IF query = <<>> THEN TRUE
    ELSE Contains(ToLower(target), ToLower(query))

\* The selector.Item values the job source can produce: a label and a key
\* (the job URL), the key possibly empty.
ItemPool ==
    { [Label |-> <<"A", "b">>, Key |-> "k1"],
      [Label |-> <<"b">>, Key |-> "k2"],
      [Label |-> <<"a", "a">>, Key |-> ""] }

\* The non-empty item lists of at most MaxItems items.
ItemLists == UNION {[1..k -> ItemPool] : k \in 1..MaxItems}

\* The characters a key press can append to the query.
QueryAlphabet == {"B"}

\* The terminal sizes a tea.WindowSizeMsg can carry.
SizePool == {[Height |-> 3, Width |-> 40], [Height |-> 7, Width |-> 80]}

\* m.selected[idx] of a Go map[int]bool: false for an absent key.
Sel(sel, idx) == idx \in DOMAIN sel /\ sel[idx]

\* selected[idx] = v
MapSet(sel, idx, v) ==
    [k \in DOMAIN sel \cup {idx} |-> IF k = idx THEN v ELSE sel[k]]

EmptyMap == [k \in {} |-> FALSE]

\* refilter's loop: the indices (0-based) of the items, from i on, whose
\* label matches the query.
RECURSIVE FilterFrom(_, _, _)
FilterFrom(items, query, i) ==
    IF i >= Len(items) THEN <<>>
    ELSE IF fuzzyMatch(query, items[i + 1].Label)
         THEN <<i>> \o FilterFrom(items, query, i + 1)
         ELSE FilterFrom(items, query, i + 1)

\* refilter's "keep cursor in bounds" switch.
ClampCursor(cursor, n) ==
    IF n = 0 THEN 0
    ELSE IF cursor >= n THEN n - 1
    ELSE cursor

\* Variant: the filtered list is rebuilt and the cursor left where it was.
refilterNoClamp(mdl) ==
    [mdl EXCEPT !.filtered = FilterFrom(mdl.items, mdl.query, 0)]

\* Variant: rebuilding the filtered list forgets the selection of the items
\* the query hides.
refilterDropsHidden(mdl) ==
    [mdl EXCEPT !.filtered = FilterFrom(mdl.items, mdl.query, 0),
                !.cursor = ClampCursor(mdl.cursor,
                                       Len(FilterFrom(mdl.items, mdl.query, 0))),
                !.selected =
                    [k \in { j \in DOMAIN mdl.selected :
                               \E p \in 1..Len(FilterFrom(mdl.items, mdl.query, 0)) :
                                  FilterFrom(mdl.items, mdl.query, 0)[p] = j }
                       |-> mdl.selected[k]]]

\* Variant: the matching indices are appended to the filtered list instead
\* of replacing it.
refilterAppends(mdl) ==
    [mdl EXCEPT !.filtered = mdl.filtered \o FilterFrom(mdl.items, mdl.query, 0),
                !.cursor = ClampCursor(mdl.cursor,
                                       Len(mdl.filtered)
                                         + Len(FilterFrom(mdl.items, mdl.query, 0)))]

\* (m *model) refilter
refilter(mdl) ==
    [mdl EXCEPT !.filtered = FilterFrom(mdl.items, mdl.query, 0),
                !.cursor = ClampCursor(mdl.cursor,
                                       Len(FilterFrom(mdl.items, mdl.query, 0)))]

\* lastRefresh is time.Now() at construction ("start") or at the last
\* successful refresh ("later").
newModel(items, refreshFn) ==
    refilter([items |-> items, filtered |-> <<>>, selected |-> EmptyMap,
              cursor |-> 0, query |-> <<>>, done |-> FALSE, quit |-> FALSE,
              refreshFn |-> refreshFn, refreshing |-> FALSE,
              refreshErr |-> FALSE, lastRefresh |-> "start",
              height |-> 0, width |-> 0])

\* Update, case tea.WindowSizeMsg
UpdateWindowSize(mdl, size) ==
    [mdl EXCEPT !.height = size.Height, !.width = size.Width]

\* Update, case refreshMsg: the keys of the selected items of the old list.
OldSelectedKeys(mdl) ==
    { mdl.items[idx + 1].Key :
        idx \in { k \in DOMAIN mdl.selected :
                    mdl.selected[k] /\ k < Len(mdl.items)
                      /\ mdl.items[k + 1].Key # "" } }

\* Variant: the old selection is kept by position instead of by key.
ReselectByIndex(mdl, items) ==
    [i \in { k \in DOMAIN mdl.selected : mdl.selected[k] /\ k < Len(items) } |-> TRUE]

\* Variant: the entries of the old selection map are kept beside the ones
\* matched by key.
ReselectMerging(mdl, items) ==
    [i \in DOMAIN mdl.selected
             \cup { k \in 0..(Len(items) - 1) :
                      items[k + 1].Key # "" /\ items[k + 1].Key \in OldSelectedKeys(mdl) }
       |-> IF i \in DOMAIN mdl.selected THEN mdl.selected[i] ELSE TRUE]

\* Update, case refreshMsg: the selection map built for the new items.
Reselect(mdl, items) ==
    [i \in { k \in 0..(Len(items) - 1) :
               items[k + 1].Key # "" /\ items[k + 1].Key \in OldSelectedKeys(mdl) }
       |-> TRUE]

\* Variant: a failed refresh also drops the selection.
UpdateRefreshMsgDropsSelection(mdl, msg) ==
    IF msg.err
    THEN [mdl EXCEPT !.refreshing = FALSE, !.refreshErr = TRUE,
                     !.selected = EmptyMap]
    ELSE refilter([mdl EXCEPT !.refreshing = FALSE,
                              !.items = msg.items,
                              !.selected = Reselect(mdl, msg.items),
                              !.refreshErr = FALSE,
                              !.lastRefresh = "later"])

\* Variant: a successful refresh replaces the items and keeps the filtered
\* list computed for the old ones.
UpdateRefreshMsgNoRefilter(mdl, msg) ==
    IF msg.err
    THEN [mdl EXCEPT !.refreshing = FALSE, !.refreshErr = TRUE]
    ELSE [mdl EXCEPT !.refreshing = FALSE,
                     !.items = msg.items,
                     !.selected = Reselect(mdl, msg.items),
                     !.refreshErr = FALSE,
                     !.lastRefresh = "later"]

\* Update, case refreshMsg
UpdateRefreshMsg(mdl, msg) ==
    IF msg.err
    THEN [mdl EXCEPT !.refreshing = FALSE, !.refreshErr = TRUE]
    ELSE refilter([mdl EXCEPT !.refreshing = FALSE,
                              !.items = msg.items,
                              !.selected = Reselect(mdl, msg.items),
                              !.refreshErr = FALSE,
                              !.lastRefresh = "later"])

\* Variant: Ctrl-C ends the program as a confirmation.
UpdateKeyCtrlCConfirms(mdl) == [mdl EXCEPT !.done = TRUE]

\* Update, case tea.KeyCtrlC
UpdateKeyCtrlC(mdl) == [mdl EXCEPT !.quit = TRUE]

\* Update, case tea.KeyEsc
UpdateKeyEsc(mdl) ==
    IF mdl.query # <<>>
    THEN refilter([mdl EXCEPT !.query = <<>>])
    ELSE [mdl EXCEPT !.quit = TRUE]

\* Update, case tea.KeyEnter
UpdateKeyEnter(mdl) == [mdl EXCEPT !.done = TRUE]

\* Update, case tea.KeyUp
UpdateKeyUp(mdl) ==
    IF mdl.cursor > 0 THEN [mdl EXCEPT !.cursor = mdl.cursor - 1] ELSE mdl

\* Update, case tea.KeyDown
UpdateKeyDown(mdl) ==
    IF mdl.cursor < Len(mdl.filtered) - 1
    THEN [mdl EXCEPT !.cursor = mdl.cursor + 1]
    ELSE mdl

\* Variant: SPACE is dropped while a refresh is in flight.
UpdateKeySpaceIdleOnly(mdl) ==
    IF Len(mdl.filtered) > 0 /\ ~mdl.refreshing
    THEN [mdl EXCEPT !.selected =
             MapSet(mdl.selected, mdl.filtered[mdl.cursor + 1],
                    ~Sel(mdl.selected, mdl.filtered[mdl.cursor + 1]))]
    ELSE mdl

\* Variant: SPACE also moves the cursor to the next row.
UpdateKeySpaceAdvances(mdl) ==
    IF Len(mdl.filtered) > 0
    THEN [mdl EXCEPT !.selected =
             MapSet(mdl.selected, mdl.filtered[mdl.cursor + 1],
                    ~Sel(mdl.selected, mdl.filtered[mdl.cursor + 1])),
                     !.cursor = IF mdl.cursor < Len(mdl.filtered) - 1
                                THEN mdl.cursor + 1 ELSE mdl.cursor]
    ELSE mdl

\* Update, case tea.KeySpace
UpdateKeySpace(mdl) ==
    IF Len(mdl.filtered) > 0
    THEN [mdl EXCEPT !.selected =
             MapSet(mdl.selected, mdl.filtered[mdl.cursor + 1],
                    ~Sel(mdl.selected, mdl.filtered[mdl.cursor + 1]))]
    ELSE mdl

\* Update, case tea.KeyBackspace
UpdateKeyBackspace(mdl) ==
    IF Len(mdl.query) > 0
    THEN refilter([mdl EXCEPT !.query = SubSeq(mdl.query, 1, Len(mdl.query) - 1)])
    ELSE mdl

\* Variant: Ctrl+A never finds the filtered items all selected.
AllSelectedNever(mdl) == FALSE

\* Update, case tea.KeyCtrlA: every filtered item is selected.
AllSelected(mdl) ==
    \A p \in 1..Len(mdl.filtered) : Sel(mdl.selected, mdl.filtered[p])

\* Variant: Ctrl+A sets every item of the list, not only the filtered ones.
UpdateKeyCtrlAEveryItem(mdl) ==
    [mdl EXCEPT !.selected =
        [k \in DOMAIN mdl.selected \cup 0..(Len(mdl.items) - 1) |->
            ~AllSelected(mdl)]]

\* Update, case tea.KeyCtrlA
UpdateKeyCtrlA(mdl) ==
    [mdl EXCEPT !.selected =
        [k \in DOMAIN mdl.selected \cup {mdl.filtered[p] : p \in 1..Len(mdl.filtered)} |->
            IF \E p \in 1..Len(mdl.filtered) : mdl.filtered[p] = k
            THEN ~AllSelected(mdl)
            ELSE mdl.selected[k]]]

\* Variant: Ctrl+R starts a refresh command even while one is in flight.
StartsRefreshUnguarded(mdl) == mdl.refreshFn

\* Update, case tea.KeyCtrlR: a refresh command is started.
StartsRefresh(mdl) == mdl.refreshFn /\ ~mdl.refreshing

\* Update, case tea.KeyCtrlR
UpdateKeyCtrlR(mdl) ==
    IF StartsRefresh(mdl)
    THEN [mdl EXCEPT !.refreshing = TRUE, !.refreshErr = FALSE]
    ELSE mdl

\* Update, case tea.KeyRunes
UpdateKeyRunes(mdl, runes) == refilter([mdl EXCEPT !.query = mdl.query \o runes])

\* const viewOverhead: the terminal rows the header and footer take.
viewOverhead == 5

\* Variant: a terminal shorter than the overhead leaves no row, or fewer.
visibleLinesNoFloor(mdl) ==
    IF mdl.height = 0 THEN Len(mdl.filtered)
    ELSE mdl.height - viewOverhead

\* (m model) visibleLines
visibleLines(mdl) ==
    IF mdl.height = 0 THEN Len(mdl.filtered)
    ELSE IF mdl.height - viewOverhead < 1 THEN 1
    ELSE mdl.height - viewOverhead

\* viewportStart's clamp of start to maxStart.
ClampStart(start, maxStart) ==
    IF start > (IF maxStart < 0 THEN 0 ELSE maxStart)
    THEN (IF maxStart < 0 THEN 0 ELSE maxStart)
    ELSE start

\* Variant: the window is placed one row too high once the cursor leaves the
\* first page.
viewportStartOffByOne(mdl) ==
    IF mdl.cursor < visibleLines(mdl) THEN 0
    ELSE ClampStart(mdl.cursor - visibleLines(mdl),
                    Len(mdl.filtered) - visibleLines(mdl))

\* Variant: past the first page the window always shows the last page.
viewportStartLastPage(mdl) ==
    IF mdl.cursor < visibleLines(mdl) THEN 0
    ELSE ClampStart(Len(mdl.filtered) - visibleLines(mdl),
                    Len(mdl.filtered) - visibleLines(mdl))

\* (m model) viewportStart
viewportStart(mdl) ==
    IF mdl.cursor < visibleLines(mdl) THEN 0
    ELSE ClampStart(mdl.cursor - visibleLines(mdl) + 1,
                    Len(mdl.filtered) - visibleLines(mdl))

\* View: the positions of filtered whose rows are rendered.
RenderedRows(mdl) ==
    IF Len(mdl.filtered) = 0 THEN {}
    ELSE { i \in 0..(Len(mdl.filtered) - 1) :
             /\ i >= viewportStart(mdl)
             /\ i < viewportStart(mdl) + visibleLines(mdl) }

\* selector.Run after p.Run(): nil when cancelled, else the selected indices.
NoResult == [returned |-> FALSE, isNil |-> TRUE, indices |-> {}]

\* Variant: Run reports every index the selection map holds, checked or not.
RunResultAllKeys(mdl) ==
    IF mdl.quit \/ ~mdl.done
    THEN [returned |-> TRUE, isNil |-> TRUE, indices |-> {}]
    ELSE [returned |-> TRUE, isNil |-> FALSE, indices |-> DOMAIN mdl.selected]

RunResult(mdl) ==
    IF mdl.quit \/ ~mdl.done
    THEN [returned |-> TRUE, isNil |-> TRUE, indices |-> {}]
    ELSE [returned |-> TRUE, isNil |-> FALSE,
          indices |-> {idx \in DOMAIN mdl.selected : mdl.selected[idx]}]

\* The selector is not running.
PickerOff ==
    /\ m = newModel(<<>>, FALSE)
    /\ refreshCmd = "none"
    /\ exited = TRUE
    /\ runResult = NoResult

\* fuzzyMatch is not being exercised on its own.
MatchOff ==
    /\ mQuery = <<>>
    /\ mTarget = <<>>
    /\ mDone = TRUE
    /\ mResult = TRUE

\* The monitor is not running.
MonitorOff ==
    /\ entries = <<>>
    /\ pc = "off"
    /\ task = <<>>
    /\ mu = 0
    /\ sigPending = FALSE
    /\ tickPending = FALSE
    /\ round = 0
    /\ sinkLog = <<>>
    /\ table = <<>>
    /\ summary = NoSummary
    /\ ret = "none"

\* ------------------------------------------------------- runMonitor's setup

\* parser.prowHost
prowHost == "prow.ci.openshift.org"

\* The job URLs /prowjobs.js can carry (FetchJobs drops the empty ones):
\* scheme, host, whether the path starts with /view/gs/, and the components
\* of the path after that prefix.
URLPool ==
    { [raw |-> "u1", scheme |-> "https", host |-> prowHost, prefix |-> TRUE,
       parts |-> <<"bucket", "logs", "job-a", "1">>],
      [raw |-> "u2", scheme |-> "https", host |-> prowHost, prefix |-> TRUE,
       parts |-> <<"bucket", "logs", "job-b", "2">>],
      [raw |-> "u3", scheme |-> "http", host |-> prowHost, prefix |-> TRUE,
       parts |-> <<"bucket", "logs", "job-a", "3">>],
      [raw |-> "u4", scheme |-> "https", host |-> prowHost, prefix |-> TRUE,
       parts |-> <<"bucket", "job-c">>],
      [raw |-> "u5", scheme |-> "https", host |-> "example.org", prefix |-> TRUE,
       parts |-> <<"bucket", "logs", "job-a", "5">>],
      [raw |-> "u6", scheme |-> "https", host |-> prowHost, prefix |-> FALSE,
       parts |-> <<"bucket", "logs", "job-a", "6">>],
      [raw |-> "u7", scheme |-> "https", host |-> prowHost, prefix |-> TRUE,
       parts |-> <<"", "logs", "job-a">>] }

\* parser.ValidateURL: "ok" or the error.
ValidateURL(u) ==
    IF u.raw = "" THEN "ErrEmptyURL"
    ELSE IF u.scheme # "https" THEN "ErrInvalidScheme"
    ELSE IF u.host # prowHost THEN "ErrInvalidHost"
    ELSE IF ~u.prefix THEN "ErrInvalidPath"
    ELSE IF Len(u.parts) < 3 THEN "ErrMissingPath"
    ELSE IF u.parts[1] = "" THEN "ErrMissingPath"
    ELSE "ok"

\* parser.ParseURL: the metadata of a valid URL.
ParseURL(u) ==
    IF ValidateURL(u) # "ok"
    THEN [err |-> TRUE, JobName |-> "", BuildID |-> ""]
    ELSE [err |-> FALSE,
          JobName |-> u.parts[Len(u.parts) - 1],
          BuildID |-> u.parts[Len(u.parts)]]

\* prowapi.Job
JobPool == { [URL |-> u, State |-> "pending"] : u \in URLPool }

JobLists == UNION {[1..k -> JobPool] : k \in 0..MaxJobs}

\* What prowapi.FetchJobs returns: an error or a list of jobs.
FetchOutcomes ==
    {[err |-> TRUE, jobs |-> <<>>]} \cup {[err |-> FALSE, jobs |-> js] : js \in JobLists}

NoFetch == [err |-> FALSE, jobs |-> <<>>]

\* buildEntriesAndItems' first loop: an entry for every job, from index i on,
\* whose URL parses.
RECURSIVE BuildEntriesFrom(_, _)
BuildEntriesFrom(jobs, i) ==
    IF i > Len(jobs) THEN <<>>
    ELSE IF ParseURL(jobs[i].URL).err
         THEN BuildEntriesFrom(jobs, i + 1)
         ELSE <<[JobName |-> ParseURL(jobs[i].URL).JobName,
                 state |-> jobs[i].State,
                 key |-> jobs[i].URL.raw]>> \o BuildEntriesFrom(jobs, i + 1)

\* fmt.Sprintf("%d", n) for one digit.
DecimalOf(n) == <<"1", "2", "3", "4", "5", "6", "7", "8", "9">>[n]

\* buildEntriesAndItems' second loop: the item of entry i.
ItemOf(es, i) ==
    [Key |-> es[i].key,
     Label |-> <<DecimalOf(i), es[i].state, es[i].JobName>>]

\* Variant: an empty entry list is handed on like any other.
buildEntriesAndItemsNoCheck(jobs) ==
    [err |-> "none",
     entries |-> BuildEntriesFrom(jobs, 1),
     items |-> [i \in 1..Len(BuildEntriesFrom(jobs, 1)) |->
                   ItemOf(BuildEntriesFrom(jobs, 1), i)]]

\* buildEntriesAndItems
buildEntriesAndItems(jobs) ==
    IF Len(BuildEntriesFrom(jobs, 1)) = 0
    THEN [err |-> "no valid prow job URLs found", entries |-> <<>>, items |-> <<>>]
    ELSE [err |-> "none",
          entries |-> BuildEntriesFrom(jobs, 1),
          items |-> [i \in 1..Len(BuildEntriesFrom(jobs, 1)) |->
                        ItemOf(BuildEntriesFrom(jobs, 1), i)]]

\* No refreshMsg is waiting for the program.
NoMsg == [err |-> FALSE, items |-> <<>>]

\* runMonitor's refreshFn, given what its FetchJobs call returned: whether it
\* replaces entries, the entries it builds, and the refreshMsg its result
\* becomes.
refreshFn(out) ==
    IF out.err \/ Len(out.jobs) = 0 \/ buildEntriesAndItems(out.jobs).err # "none"
    THEN [replaces |-> FALSE, entries |-> <<>>,
          msg |-> [err |-> TRUE, items |-> <<>>]]
    ELSE [replaces |-> TRUE,
          entries |-> buildEntriesAndItems(out.jobs).entries,
          msg |-> [err |-> FALSE, items |-> buildEntriesAndItems(out.jobs).items]]

\* sort.Ints(selectedIndices): the indices of S in ascending order.
RECURSIVE SortInts(_)
SortInts(S) ==
    IF S = {} THEN <<>>
    ELSE LET least == CHOOSE x \in S : \A y \in S : x <= y
         IN <<least>> \o SortInts(S \ {least})

\* runMonitor has not been called.
SetupOff ==
    /\ rmPc = "off"
    /\ rmFetch = NoFetch
    /\ rmEntries = <<>>
    /\ rmErr = "none"
    /\ rmMsg = NoMsg
    /\ rmSelected = <<>>

\* ------------------------------------------------------------ watcher data

\* The finished.json bodies a server can send: not JSON of the expected
\* shape, or a document whose passed field is true, false or absent.
BodyPool ==
    {[valid |-> FALSE, passed |-> "absent", timestamp |-> 0]}
    \cup {[valid |-> TRUE, passed |-> p, timestamp |-> t] :
             p \in {"true", "false", "absent"}, t \in 0..MaxTimestamp}

\* What http.Get(finishedURL) and reading the body can give: a transport
\* failure, or a response with a status code and a body that can be read or
\* not.
TransportFailure ==
    [transport |-> "fail", code |-> 0, readOk |-> FALSE,
     body |-> [valid |-> FALSE, passed |-> "absent", timestamp |-> 0]]

ResponsePool ==
    {TransportFailure}
    \cup {[transport |-> "ok", code |-> c, readOk |-> r, body |-> b] :
             c \in {200, 404, 403, 500}, r \in BOOLEAN, b \in BodyPool}

\* A nil *JobStatus.
NilJobStatus == [isNil |-> TRUE, Finished |-> FALSE, Passed |-> FALSE, Timestamp |-> 0]

\* Variant: every status code other than 200 is read as still running.
CheckJobStatusLenient(resp) ==
    IF resp.transport = "fail"
    THEN [status |-> NilJobStatus, err |-> "failed to fetch job status"]
    ELSE IF resp.code # 200
    THEN [status |-> NilJobStatus, err |-> "none"]
    ELSE IF ~resp.readOk
    THEN [status |-> NilJobStatus, err |-> "failed to read response body"]
    ELSE IF ~resp.body.valid
    THEN [status |-> NilJobStatus, err |-> "failed to parse finished.json"]
    ELSE [status |-> [isNil |-> FALSE, Finished |-> TRUE,
                      Passed |-> (resp.body.passed = "true"),
                      Timestamp |-> resp.body.timestamp],
          err |-> "none"]

\* watcher.CheckJobStatus
CheckJobStatus(resp) ==
    IF resp.transport = "fail"
    THEN [status |-> NilJobStatus, err |-> "failed to fetch job status"]
    ELSE IF resp.code = 404
    THEN [status |-> NilJobStatus, err |-> "none"]
    ELSE IF resp.code # 200
    THEN [status |-> NilJobStatus, err |-> "unexpected status code"]
    ELSE IF ~resp.readOk
    THEN [status |-> NilJobStatus, err |-> "failed to read response body"]
    ELSE IF ~resp.body.valid
    THEN [status |-> NilJobStatus, err |-> "failed to parse finished.json"]
    ELSE [status |-> [isNil |-> FALSE, Finished |-> TRUE,
                      Passed |-> (resp.body.passed = "true"),
                      Timestamp |-> resp.body.timestamp],
          err |-> "none"]

\* No call of CheckJobStatus has been made.
NoCheck == [status |-> NilJobStatus, err |-> "none"]

\* Variant: a failed check on a tick ends Watch.
AfterFailedCheckReturn == "returned"

\* Watch's for loop after "if err != nil { Warning }": the loop goes on.
AfterFailedCheck == "wait"

\* What Watch returns, once it has.
NoReturn == [returned |-> FALSE, status |-> NilJobStatus, err |-> "none"]

\* watcher.Watch has not been called.
WatchOff ==
    /\ wPc = "off"
    /\ wResp = TransportFailure
    /\ wOut = NoCheck
    /\ wCheckTick = FALSE
    /\ wCountTick = FALSE
    /\ wChecks = 0
    /\ wRet = NoReturn

\* -------------------------------------------------------------- config data

\* A nil *Config.
NilConfig ==
    [isNil |-> TRUE, Dest |-> "", AnalyzeCmd |-> "", NtfyChannel |-> "",
     Interactive |-> FALSE]

\* The *Config values a source named tag can hand to MergeConfig: nil, or a
\* Config whose string settings are empty or set.
ConfigsOf(tag) ==
    {NilConfig}
    \cup {[isNil |-> FALSE, Dest |-> d, AnalyzeCmd |-> a, NtfyChannel |-> n,
           Interactive |-> i] :
             d \in {"", tag}, a \in {"", tag}, n \in {"", tag}, i \in BOOLEAN}

\* DefaultConfig()
DefaultConfig ==
    [isNil |-> FALSE, Dest |-> ".", AnalyzeCmd |-> "", NtfyChannel |-> "",
     Interactive |-> FALSE]

\* The defaults argument: nil, DefaultConfig(), or a Config with every string
\* set.
DefaultsPool ==
    {NilConfig, DefaultConfig,
     [isNil |-> FALSE, Dest |-> "dflt", AnalyzeCmd |-> "dflt",
      NtfyChannel |-> "dflt", Interactive |-> FALSE]}

\* MergeConfig, "Start with defaults": the three strings are copied.
StartWith(defaults) ==
    IF defaults.isNil
    THEN [isNil |-> FALSE, Dest |-> "", AnalyzeCmd |-> "", NtfyChannel |-> "",
          Interactive |-> FALSE]
    ELSE [isNil |-> FALSE, Dest |-> defaults.Dest, AnalyzeCmd |-> defaults.AnalyzeCmd,
          NtfyChannel |-> defaults.NtfyChannel, Interactive |-> FALSE]

\* MergeConfig, one "Override with ..." block.
Override(result, src) ==
    IF src.isNil THEN result
    ELSE [isNil |-> FALSE,
          Dest |-> IF src.Dest # "" THEN src.Dest ELSE result.Dest,
          AnalyzeCmd |-> IF src.AnalyzeCmd # "" THEN src.AnalyzeCmd
                         ELSE result.AnalyzeCmd,
          NtfyChannel |-> IF src.NtfyChannel # "" THEN src.NtfyChannel
                          ELSE result.NtfyChannel,
          Interactive |-> IF src.Interactive THEN TRUE ELSE result.Interactive]

\* Variant: the environment is applied last, over the CLI flags.
MergeConfigEnvLast(cli, env, file, defaults) ==
    Override(Override(Override(StartWith(defaults), file), cli), env)

\* config.MergeConfig
MergeConfig(cli, env, file, defaults) ==
    Override(Override(Override(StartWith(defaults), file), env), cli)

\* MergeConfig is not being exercised on its own.
ConfigOff ==
    mergeCall = [cli |-> NilConfig, env |-> NilConfig, file |-> NilConfig,
                 defaults |-> NilConfig, done |-> TRUE, result |-> NilConfig]

\* No refresh request of the selector has been observed.
WindowOff == reqKeys = {}

\* The terminal heights given to a model whose viewport is computed: unknown,
\* below the overhead, five rows and fifteen rows above it.
HeightPool == {0, 2, viewOverhead + 5, 20}

\* A list of n items, as TestViewportStart builds it; with an empty query
\* every label matches.
ViewItems(n) == [i \in 1..n |-> [Label |-> <<"i", "t", "e", "m">>, Key |-> ""]]

\* Neither visibleLines nor viewportStart has been called.
NoViewCall == [done |-> FALSE, lines |-> 0, start |-> 0]

\* The viewport is not being exercised on its own.
ViewOff == viewCall = NoViewCall

\* The queries given to a model refilter is called on.
RefilterQueries == UNION {[1..k -> QueryAlphabet] : k \in 0..MaxQueryLen}

\* m.refilter() has not been called.
NoRefilterCall == [calls |-> 0, filtered |-> <<>>, cursor |-> 0]

\* refilter is not being exercised on its own.
RefilterOff == refilterCall = NoRefilterCall

\* ---------------------------------------------------------- monitor actions

MonitorInit ==
    /\ entries \in UNION {[1..k -> {NewEntry}] : k \in 1..MaxEntries}
    /\ pc = "start"
    /\ task = [i \in Indices |-> IdleTask]
    /\ mu = 0
    /\ sigPending = FALSE
    /\ tickPending = FALSE
    /\ round = 0
    /\ sinkLog = <<>>
    /\ table = <<>>
    /\ summary = NoSummary
    /\ ret = "none"
    /\ PickerOff
    /\ MatchOff
    /\ SetupOff
    /\ WatchOff
    /\ ConfigOff
    /\ WindowOff
    /\ ViewOff
    /\ RefilterOff

Running == pc \notin {"done", "interrupted"}

\* checkAllStatuses up to wg.Wait(): one goroutine per unfinished entry.
SpawnProbes ==
    /\ task' = [i \in Indices |->
                   IF NeedsProbe(entries[i]) THEN [st |-> "fetch", res |-> "none"]
                   ELSE IdleTask]
    /\ round' = round + 1
    /\ pc' = "wait"

\* monitorJobs: the initial check.
InitialCheck ==
    /\ pc = "start"
    /\ SpawnProbes
    /\ UNCHANGED <<entries, mu, sigPending, tickPending, sinkLog, table, summary, ret>>
    /\ UNCHANGED <<pickerVars, matchVars, setupVars, watchVars, mergeCall, reqKeys, viewCall, refilterCall>>

\* A goroutine's watcher.CheckJobStatus call returns.
ProbeReturns(i, res) ==
    /\ task[i].st = "fetch"
    /\ task' = [task EXCEPT ![i] = [st |-> "locking", res |-> res]]
    /\ UNCHANGED <<entries, pc, mu, sigPending, tickPending, round, sinkLog,
                   table, summary, ret>>
    /\ UNCHANGED <<pickerVars, matchVars, setupVars, watchVars, mergeCall, reqKeys, viewCall, refilterCall>>

\* Variant: the goroutine enters its critical section without the mutex
\* being free.
TaskLockNoWait(i) ==
    /\ task[i].st = "locking"
    /\ mu' = i
    /\ task' = [task EXCEPT ![i].st = "crit"]
    /\ UNCHANGED <<entries, pc, sigPending, tickPending, round, sinkLog,
                   table, summary, ret>>
    /\ UNCHANGED <<pickerVars, matchVars, setupVars, watchVars, mergeCall, reqKeys, viewCall, refilterCall>>

\* mu.Lock()
TaskLock(i) ==
    /\ task[i].st = "locking"
    /\ mu = 0
    /\ mu' = i
    /\ task' = [task EXCEPT ![i].st = "crit"]
    /\ UNCHANGED <<entries, pc, sigPending, tickPending, round, sinkLog,
                   table, summary, ret>>
    /\ UNCHANGED <<pickerVars, matchVars, setupVars, watchVars, mergeCall, reqKeys, viewCall, refilterCall>>

\* The writes under the lock, then the deferred mu.Unlock() and wg.Done().
TaskApply(i) ==
    /\ task[i].st = "crit"
    /\ entries' = [entries EXCEPT ![i] = ApplyResult(entries[i], task[i].res)]
    /\ mu' = 0
    /\ task' = [task EXCEPT ![i] = [st |-> "done", res |-> "none"]]
    /\ UNCHANGED <<pc, sigPending, tickPending, round, sinkLog, table, summary, ret>>
    /\ UNCHANGED <<pickerVars, matchVars, setupVars, watchVars, mergeCall, reqKeys, viewCall, refilterCall>>

\* wg.Wait() returns; checkAllStatuses returns.
Join ==
    /\ pc = "wait"
    /\ WaitGroupZero
    /\ pc' = "notify"
    /\ UNCHANGED <<entries, task, mu, sigPending, tickPending, round, sinkLog,
                   table, summary, ret>>
    /\ UNCHANGED <<pickerVars, matchVars, setupVars, watchVars, mergeCall, reqKeys, viewCall, refilterCall>>

NotifyCompletions ==
    /\ pc = "notify"
    /\ \E ok \in [Indices -> BOOLEAN] :
          /\ sinkLog' = sinkLog \o NotifyFrom(entries, 1, ok)
          /\ entries' = [i \in Indices |-> NotifiedAfter(entries[i], ok[i])]
    /\ pc' = "print"
    /\ UNCHANGED <<task, mu, sigPending, tickPending, round, table, summary, ret>>
    /\ UNCHANGED <<pickerVars, matchVars, setupVars, watchVars, mergeCall, reqKeys, viewCall, refilterCall>>

PrintStatusTable ==
    /\ pc = "print"
    /\ table' = [i \in Indices |-> StatusLabel(entries[i])]
    /\ pc' = "loop"
    /\ UNCHANGED <<entries, task, mu, sigPending, tickPending, round, sinkLog,
                   summary, ret>>
    /\ UNCHANGED <<pickerVars, matchVars, setupVars, watchVars, mergeCall, reqKeys, viewCall, refilterCall>>

\* Top of the for loop: allEntriesDone, then the summary and return nil.
LoopDone ==
    /\ pc = "loop"
    /\ allEntriesDone
    /\ summary' = FinalSummary
    /\ ret' = "nil"
    /\ pc' = "done"
    /\ UNCHANGED <<entries, task, mu, sigPending, tickPending, round, sinkLog, table>>
    /\ UNCHANGED <<pickerVars, matchVars, setupVars, watchVars, mergeCall, reqKeys, viewCall, refilterCall>>

\* Top of the for loop: not all done, so block in select.
LoopWait ==
    /\ pc = "loop"
    /\ ~allEntriesDone
    /\ pc' = "select"
    /\ UNCHANGED <<entries, task, mu, sigPending, tickPending, round, sinkLog,
                   table, summary, ret>>
    /\ UNCHANGED <<pickerVars, matchVars, setupVars, watchVars, mergeCall, reqKeys, viewCall, refilterCall>>

\* select: case <-sigCh
SelectSignal ==
    /\ pc = "select"
    /\ "sigCh" \in SelectCases
    /\ sigPending
    /\ sigPending' = AfterReceive(sigPending)
    /\ pc' = AfterSignal
    /\ ret' = IF AfterSignal = "interrupted" THEN "nil" ELSE ret
    /\ UNCHANGED <<entries, task, mu, tickPending, round, sinkLog, table, summary>>
    /\ UNCHANGED <<pickerVars, matchVars, setupVars, watchVars, mergeCall, reqKeys, viewCall, refilterCall>>

\* select: case <-ticker.C
SelectTick ==
    /\ pc = "select"
    /\ "ticker.C" \in SelectCases
    /\ tickPending
    /\ tickPending' = AfterReceive(tickPending)
    /\ SpawnProbes
    /\ UNCHANGED <<entries, mu, sigPending, sinkLog, table, summary, ret>>
    /\ UNCHANGED <<pickerVars, matchVars, setupVars, watchVars, mergeCall, reqKeys, viewCall, refilterCall>>

\* The runtime delivers SIGINT/SIGTERM to sigCh (signal.Notify, capacity 1).
SignalArrives ==
    /\ Running
    /\ ~sigPending
    /\ sigPending' = TRUE
    /\ UNCHANGED <<entries, pc, task, mu, tickPending, round, sinkLog, table,
                   summary, ret>>
    /\ UNCHANGED <<pickerVars, matchVars, setupVars, watchVars, mergeCall, reqKeys, viewCall, refilterCall>>

\* The ticker sends on ticker.C (capacity 1; a tick is dropped when it is full).
TickFires ==
    /\ Running
    /\ ~tickPending
    /\ round < MaxRounds
    /\ tickPending' = TRUE
    /\ UNCHANGED <<entries, pc, task, mu, sigPending, round, sinkLog, table,
                   summary, ret>>
    /\ UNCHANGED <<pickerVars, matchVars, setupVars, watchVars, mergeCall, reqKeys, viewCall, refilterCall>>

Init == MonitorInit

Next ==
    \/ InitialCheck
    \/ \E i \in Indices, res \in ProbeOutcomes : ProbeReturns(i, res)
    \/ \E i \in Indices : TaskLock(i)
    \/ \E i \in Indices : TaskApply(i)
    \/ Join
    \/ NotifyCompletions
    \/ PrintStatusTable
    \/ LoopDone
    \/ LoopWait
    \/ SelectSignal
    \/ SelectTick
    \/ SignalArrives
    \/ TickFires

Spec == Init /\ [][Next]_vars

\* ------------------------------------------- the monitor without interrupt

\* The steps of the monitor when no SIGINT/SIGTERM is delivered.
LiveNext ==
    \/ InitialCheck
    \/ \E i \in Indices, res \in ProbeOutcomes : ProbeReturns(i, res)
    \/ \E i \in Indices : TaskLock(i)
    \/ \E i \in Indices : TaskApply(i)
    \/ Join
    \/ NotifyCompletions
    \/ PrintStatusTable
    \/ LoopDone
    \/ LoopWait
    \/ SelectTick
    \/ TickFires

\* monitorJobs and its goroutines keep running, every CheckJobStatus call
\* returns, and the ticker keeps sending while the loop runs.
LiveFairness ==
    /\ WF_vars(InitialCheck)
    /\ \A i \in 1..MaxEntries :
          /\ WF_vars(i \in Indices /\ \E res \in ProbeOutcomes : ProbeReturns(i, res))
          /\ WF_vars(i \in Indices /\ TaskLock(i))
          /\ WF_vars(i \in Indices /\ TaskApply(i))
    /\ WF_vars(Join)
    /\ WF_vars(NotifyCompletions)
    /\ WF_vars(PrintStatusTable)
    /\ WF_vars(LoopDone)
    /\ WF_vars(LoopWait)
    /\ WF_vars(SelectTick)
    /\ WF_vars(TickFires)

LiveSpec == Init /\ [][LiveNext]_vars /\ LiveFairness

\* ------------------------------------------------- the end-to-end scenario

\* Round by round, what the probe of each of the three entries returns; "-"
\* where the entry is already finished and no probe is issued.
ScenarioOutcomes ==
    << <<"passed", "passed", "running">>,
       <<"-", "-", "running">>,
       <<"-", "-", "running">>,
       <<"-", "-", "failed">> >>

ScenarioInit ==
    /\ entries = [i \in 1..Len(ScenarioOutcomes[1]) |-> NewEntry]
    /\ pc = "start"
    /\ task = [i \in Indices |-> IdleTask]
    /\ mu = 0
    /\ sigPending = FALSE
    /\ tickPending = FALSE
    /\ round = 0
    /\ sinkLog = <<>>
    /\ table = <<>>
    /\ summary = NoSummary
    /\ ret = "none"
    /\ PickerOff
    /\ MatchOff
    /\ SetupOff
    /\ WatchOff
    /\ ConfigOff
    /\ WindowOff
    /\ ViewOff
    /\ RefilterOff

ScenarioProbeReturns(i) ==
    /\ round \in 1..Len(ScenarioOutcomes)
    /\ ScenarioOutcomes[round][i] \in ProbeOutcomes
    /\ ProbeReturns(i, ScenarioOutcomes[round][i])

\* The ticker keeps firing, also once the scenario's last round has run.
ScenarioTickFires ==
    /\ Running
    /\ ~tickPending
    /\ round <= Len(ScenarioOutcomes)
    /\ tickPending' = TRUE
    /\ UNCHANGED <<entries, pc, task, mu, sigPending, round, sinkLog, table,
                   summary, ret>>
    /\ UNCHANGED <<pickerVars, matchVars, setupVars, watchVars, mergeCall, reqKeys, viewCall, refilterCall>>

ScenarioNext ==
    \/ InitialCheck
    \/ \E i \in Indices : ScenarioProbeReturns(i)
    \/ \E i \in Indices : TaskLock(i)
    \/ \E i \in Indices : TaskApply(i)
    \/ Join
    \/ NotifyCompletions
    \/ PrintStatusTable
    \/ LoopDone
    \/ LoopWait
    \/ SelectTick
    \/ ScenarioTickFires

ScenarioSpec == ScenarioInit /\ [][ScenarioNext]_vars

\* --------------------------------------------------------- selector actions

\* selector.Run: tea.NewProgram(newModel(items, refreshFn)) on a non-empty list.
PickerInit ==
    /\ m \in {newModel(items, TRUE) : items \in ItemLists}
    /\ refreshCmd = "none"
    /\ exited = FALSE
    /\ runResult = NoResult
    /\ MonitorOff
    /\ MatchOff
    /\ SetupOff
    /\ WatchOff
    /\ ConfigOff
    /\ WindowOff
    /\ ViewOff
    /\ RefilterOff

\* The program processes one message with Update; a tea.Quit ends it and Run
\* computes its result from the final model.
Step(mdl, quits) ==
    /\ m' = mdl
    /\ exited' = quits
    /\ runResult' = IF quits THEN RunResult(mdl) ELSE runResult

PickerFrame == UNCHANGED <<monitorVars, matchVars, setupVars, watchVars, mergeCall, reqKeys, viewCall, refilterCall>>

Resize ==
    /\ ~exited
    /\ \E size \in SizePool : Step(UpdateWindowSize(m, size), FALSE)
    /\ UNCHANGED refreshCmd
    /\ PickerFrame

\* The refresh command's goroutine returns from refreshFn; its refreshMsg is
\* queued for the program.
RefreshReturns ==
    /\ ~exited
    /\ refreshCmd = "running"
    /\ refreshCmd' = "queued"
    /\ UNCHANGED <<m, exited, runResult>>
    /\ PickerFrame

\* The program delivers the queued refreshMsg; what refreshFn returned is an
\* error or a non-empty item list, read here for the first time.
RefreshDelivered ==
    /\ ~exited
    /\ refreshCmd = "queued"
    /\ \E msg \in {[err |-> TRUE, items |-> <<>>]}
                  \cup {[err |-> FALSE, items |-> items] : items \in ItemLists} :
          Step(UpdateRefreshMsg(m, msg), FALSE)
    /\ refreshCmd' = "none"
    /\ PickerFrame

KeyCtrlC ==
    /\ ~exited
    /\ Step(UpdateKeyCtrlC(m), TRUE)
    /\ UNCHANGED refreshCmd
    /\ PickerFrame

KeyEsc ==
    /\ ~exited
    /\ Step(UpdateKeyEsc(m), m.query = <<>>)
    /\ UNCHANGED refreshCmd
    /\ PickerFrame

KeyEnter ==
    /\ ~exited
    /\ Step(UpdateKeyEnter(m), TRUE)
    /\ UNCHANGED refreshCmd
    /\ PickerFrame

KeyUp ==
    /\ ~exited
    /\ Step(UpdateKeyUp(m), FALSE)
    /\ UNCHANGED refreshCmd
    /\ PickerFrame

KeyDown ==
    /\ ~exited
    /\ Step(UpdateKeyDown(m), FALSE)
    /\ UNCHANGED refreshCmd
    /\ PickerFrame

KeySpace ==
    /\ ~exited
    /\ Step(UpdateKeySpace(m), FALSE)
    /\ UNCHANGED refreshCmd
    /\ PickerFrame

KeyBackspace ==
    /\ ~exited
    /\ Step(UpdateKeyBackspace(m), FALSE)
    /\ UNCHANGED refreshCmd
    /\ PickerFrame

KeyCtrlA ==
    /\ ~exited
    /\ Step(UpdateKeyCtrlA(m), FALSE)
    /\ UNCHANGED refreshCmd
    /\ PickerFrame

KeyCtrlR ==
    /\ ~exited
    /\ Step(UpdateKeyCtrlR(m), FALSE)
    /\ refreshCmd' = IF StartsRefresh(m) THEN "running" ELSE refreshCmd
    /\ PickerFrame

KeyRunes ==
    /\ ~exited
    /\ Len(m.query) < MaxQueryLen
    /\ \E c \in QueryAlphabet : Step(UpdateKeyRunes(m, <<c>>), FALSE)
    /\ UNCHANGED refreshCmd
    /\ PickerFrame

PickerNext ==
    \/ Resize
    \/ RefreshReturns
    \/ RefreshDelivered
    \/ KeyCtrlC
    \/ KeyEsc
    \/ KeyEnter
    \/ KeyUp
    \/ KeyDown
    \/ KeySpace
    \/ KeyBackspace
    \/ KeyCtrlA
    \/ KeyCtrlR
    \/ KeyRunes

PickerSpec == PickerInit /\ [][PickerNext]_vars

\* ------------------------------------------- the selector's refresh window

\* selector.Run on a list of items, with the keys selected at each refresh
\* request recorded beside the program.
WindowInit ==
    /\ m \in {newModel(items, TRUE) : items \in ItemLists}
    /\ refreshCmd = "none"
    /\ exited = FALSE
    /\ runResult = NoResult
    /\ reqKeys = {}
    /\ ViewOff
    /\ RefilterOff
    /\ MonitorOff
    /\ MatchOff
    /\ SetupOff
    /\ WatchOff
    /\ ConfigOff

\* Ctrl+R as in KeyCtrlR; when it starts a refresh the keys selected at that
\* moment are recorded.
KeyCtrlRObserved ==
    /\ ~exited
    /\ Step(UpdateKeyCtrlR(m), FALSE)
    /\ refreshCmd' = IF StartsRefresh(m) THEN "running" ELSE refreshCmd
    /\ reqKeys' = IF StartsRefresh(m) THEN OldSelectedKeys(m) ELSE reqKeys
    /\ UNCHANGED <<monitorVars, matchVars, setupVars, watchVars, mergeCall,
                   viewCall, refilterCall>>

WindowNext ==
    \/ KeyCtrlRObserved
    \/ KeyUp
    \/ KeyDown
    \/ KeySpace
    \/ KeyEnter
    \/ RefreshReturns
    \/ RefreshDelivered

WindowSpec == WindowInit /\ [][WindowNext]_vars

\* ------------------------------------------- the selector's viewport on its own

\* A model as the viewport tests build it: n items, no query, a terminal
\* height and a cursor on one of the items.
ViewInit ==
    /\ \E n \in 0..MaxViewItems, h \in HeightPool :
          \E c \in 0..(IF n = 0 THEN 0 ELSE n - 1) :
             m = [newModel(ViewItems(n), FALSE) EXCEPT !.height = h, !.cursor = c]
    /\ refreshCmd = "none"
    /\ exited = TRUE
    /\ runResult = NoResult
    /\ viewCall = NoViewCall
    /\ RefilterOff
    /\ MonitorOff
    /\ MatchOff
    /\ SetupOff
    /\ WatchOff
    /\ ConfigOff
    /\ WindowOff

\* m.visibleLines() and m.viewportStart() are called.
ViewCall ==
    /\ ~viewCall.done
    /\ viewCall' = [done |-> TRUE, lines |-> visibleLines(m),
                    start |-> viewportStart(m)]
    /\ UNCHANGED <<monitorVars, pickerVars, matchVars, setupVars, watchVars,
                   mergeCall, reqKeys, refilterCall>>

ViewNext == ViewCall

ViewSpec == ViewInit /\ [][ViewNext]_vars

\* ------------------------------------------------------ refilter on its own

\* A model as Update hands it to refilter: items and a query, the filtered
\* list still empty (newModel) or the one of the empty query, and the cursor
\* anywhere on the items.
RefilterInit ==
    /\ \E items \in ItemLists, q \in RefilterQueries, c \in 0..MaxItems :
          \E old \in {<<>>, FilterFrom(items, <<>>, 0)} :
             m = [newModel(items, FALSE) EXCEPT !.query = q, !.cursor = c,
                                                !.filtered = old]
    /\ refreshCmd = "none"
    /\ exited = TRUE
    /\ runResult = NoResult
    /\ refilterCall = NoRefilterCall
    /\ MonitorOff
    /\ MatchOff
    /\ SetupOff
    /\ WatchOff
    /\ ConfigOff
    /\ WindowOff
    /\ ViewOff

\* m.refilter() is called, at most twice; what the first call left is kept.
RefilterCalled ==
    /\ refilterCall.calls < 2
    /\ m' = refilter(m)
    /\ refilterCall' =
          IF refilterCall.calls = 0
          THEN [calls |-> 1, filtered |-> refilter(m).filtered,
                cursor |-> refilter(m).cursor]
          ELSE [refilterCall EXCEPT !.calls = 2]
    /\ UNCHANGED <<refreshCmd, exited, runResult>>
    /\ UNCHANGED <<monitorVars, matchVars, setupVars, watchVars, mergeCall,
                   reqKeys, viewCall>>

RefilterNext == RefilterCalled

RefilterSpec == RefilterInit /\ [][RefilterNext]_vars

\* ------------------------------------------------------ fuzzyMatch on its own

\* The characters of the bounded queries and targets.
MatchAlphabet == {"a", "b", "A"}

BoundedStrings(n) == UNION {[1..k -> MatchAlphabet] : k \in 0..n}

\* Cases of TestFuzzyMatch, the target cut to its last seven characters.
TestTarget == <<"a", "w", "s", "-", "o", "v", "n">>

TestCases ==
    { <<<<"o", "v", "n">>, TestTarget>>,
      <<<<"O", "V", "N">>, TestTarget>>,
      <<<<"a", "o", "n">>, TestTarget>>,
      <<<<"n", "o", "a">>, TestTarget>>,
      <<<<"x">>, TestTarget>> }

MatchInit ==
    /\ \E case \in (BoundedStrings(MaxMatchQuery) \X BoundedStrings(MaxMatchTarget))
                      \cup TestCases :
          /\ mQuery = case[1]
          /\ mTarget = case[2]
    /\ mDone = FALSE
    /\ mResult = FALSE
    /\ MonitorOff
    /\ PickerOff
    /\ SetupOff
    /\ WatchOff
    /\ ConfigOff
    /\ WindowOff
    /\ ViewOff
    /\ RefilterOff

MatchCall ==
    /\ ~mDone
    /\ mResult' = fuzzyMatch(mQuery, mTarget)
    /\ mDone' = TRUE
    /\ UNCHANGED <<mQuery, mTarget, monitorVars, pickerVars, setupVars, watchVars, mergeCall, reqKeys, viewCall, refilterCall>>

MatchNext == MatchCall

MatchSpec == MatchInit /\ [][MatchNext]_vars

\* ------------------------------------------------------ runMonitor's setup

\* runMonitor is called: nothing is fetched, selected or monitored yet.
SetupInit ==
    /\ rmPc = "start"
    /\ rmFetch = NoFetch
    /\ rmEntries = <<>>
    /\ rmErr = "none"
    /\ rmMsg = NoMsg
    /\ rmSelected = <<>>
    /\ MonitorOff
    /\ PickerOff
    /\ MatchOff
    /\ WatchOff
    /\ ConfigOff
    /\ WindowOff
    /\ ViewOff
    /\ RefilterOff

SetupFrame == UNCHANGED <<monitorVars, matchVars, watchVars, mergeCall, reqKeys, viewCall, refilterCall>>

\* prowapi.FetchJobs(pageURL) returns.
FetchJobsReturns ==
    /\ rmPc = "start"
    /\ \E out \in FetchOutcomes : rmFetch' = out
    /\ rmPc' = "fetched"
    /\ UNCHANGED <<rmEntries, rmErr, rmMsg, rmSelected, pickerVars>>
    /\ SetupFrame

\* if err != nil { return fmt.Errorf("failed to fetch prow jobs: %w", err) }
ReturnFetchError ==
    /\ rmPc = "fetched"
    /\ rmFetch.err
    /\ rmErr' = "failed to fetch prow jobs"
    /\ rmPc' = "returned"
    /\ UNCHANGED <<rmFetch, rmEntries, rmMsg, rmSelected, pickerVars>>
    /\ SetupFrame

\* if len(jobs) == 0 { return fmt.Errorf("no prow jobs found ...") }
ReturnNoJobs ==
    /\ rmPc = "fetched"
    /\ ~rmFetch.err
    /\ Len(rmFetch.jobs) = 0
    /\ rmErr' = "no prow jobs found (try adjusting the filter parameters in the URL)"
    /\ rmPc' = "returned"
    /\ UNCHANGED <<rmFetch, rmEntries, rmMsg, rmSelected, pickerVars>>
    /\ SetupFrame

\* entries, items, err := buildEntriesAndItems(jobs); if err != nil { return err }
ReturnBuildError ==
    /\ rmPc = "fetched"
    /\ ~rmFetch.err
    /\ Len(rmFetch.jobs) # 0
    /\ buildEntriesAndItems(rmFetch.jobs).err # "none"
    /\ rmErr' = buildEntriesAndItems(rmFetch.jobs).err
    /\ rmPc' = "returned"
    /\ UNCHANGED <<rmFetch, rmEntries, rmMsg, rmSelected, pickerVars>>
    /\ SetupFrame

\* selector.Run(items, refreshFn) is called with the items built and starts
\* the program.
RunSelector ==
    /\ rmPc = "fetched"
    /\ ~rmFetch.err
    /\ Len(rmFetch.jobs) # 0
    /\ buildEntriesAndItems(rmFetch.jobs).err = "none"
    /\ rmEntries' = buildEntriesAndItems(rmFetch.jobs).entries
    /\ m' = newModel(buildEntriesAndItems(rmFetch.jobs).items, TRUE)
    /\ exited' = FALSE
    /\ rmPc' = "selector"
    /\ UNCHANGED <<rmFetch, rmErr, rmMsg, rmSelected, refreshCmd, runResult>>
    /\ SetupFrame

SetupNext ==
    \/ FetchJobsReturns
    \/ ReturnFetchError
    \/ ReturnNoJobs
    \/ ReturnBuildError
    \/ RunSelector

SetupSpec == SetupInit /\ [][SetupNext]_vars

\* ------------------------------------- runMonitor: selection and resolution

\* runMonitor has called selector.Run on the items built from a fetch of
\* parsable jobs.
ResolveInit ==
    /\ \E js \in JobLists :
          /\ Len(js) >= 1
          /\ \A i \in 1..Len(js) : ~ParseURL(js[i].URL).err
          /\ rmFetch = [err |-> FALSE, jobs |-> js]
          /\ rmEntries = buildEntriesAndItems(js).entries
          /\ m = newModel(buildEntriesAndItems(js).items, TRUE)
    /\ rmPc = "selector"
    /\ rmErr = "none"
    /\ rmMsg = NoMsg
    /\ rmSelected = <<>>
    /\ refreshCmd = "none"
    /\ exited = FALSE
    /\ runResult = NoResult
    /\ MonitorOff
    /\ MatchOff
    /\ WatchOff
    /\ ConfigOff
    /\ WindowOff
    /\ ViewOff
    /\ RefilterOff

\* The refresh command's goroutine returns from refreshFn: entries is
\* replaced when the fetch gave parsable jobs, and the result is queued as a
\* refreshMsg. The goroutine is not stopped when the program quits.
RefreshFnReturns ==
    /\ rmPc = "selector"
    /\ refreshCmd = "running"
    /\ \E out \in FetchOutcomes :
          /\ rmEntries' = IF refreshFn(out).replaces
                          THEN refreshFn(out).entries ELSE rmEntries
          /\ rmMsg' = refreshFn(out).msg
    /\ refreshCmd' = "queued"
    /\ UNCHANGED <<m, exited, runResult, rmPc, rmFetch, rmErr, rmSelected>>
    /\ UNCHANGED <<monitorVars, matchVars, watchVars, mergeCall, reqKeys, viewCall, refilterCall>>

\* The program delivers the queued refreshMsg to Update.
RefreshMsgDelivered ==
    /\ ~exited
    /\ refreshCmd = "queued"
    /\ Step(UpdateRefreshMsg(m, rmMsg), FALSE)
    /\ refreshCmd' = "none"
    /\ rmMsg' = NoMsg
    /\ UNCHANGED <<rmPc, rmFetch, rmEntries, rmErr, rmSelected>>
    /\ UNCHANGED <<monitorVars, matchVars, watchVars, mergeCall, reqKeys, viewCall, refilterCall>>

\* selector.Run has returned: nothing selected ends runMonitor; otherwise
\* selected[i] = entries[idx] for the sorted indices, which panics on an
\* index out of range, and monitorJobs is called with the result.
ResolveSelection ==
    /\ rmPc = "selector"
    /\ exited
    /\ rmPc' = IF runResult.indices = {} THEN "returned"
               ELSE IF \E idx \in runResult.indices :
                          idx >= Len(rmEntries)
               THEN "panic"
               ELSE "monitor"
    /\ rmSelected' =
          IF rmPc' = "monitor"
          THEN [i \in 1..Cardinality(runResult.indices) |->
                   rmEntries[SortInts(runResult.indices)[i] + 1]]
          ELSE rmSelected
    /\ UNCHANGED <<rmFetch, rmEntries, rmErr, rmMsg, pickerVars>>
    /\ UNCHANGED <<monitorVars, matchVars, watchVars, mergeCall, reqKeys, viewCall, refilterCall>>

ResolveNext ==
    \/ KeyCtrlR
    \/ KeySpace
    \/ KeyDown
    \/ KeyEnter
    \/ KeyCtrlC
    \/ RefreshFnReturns
    \/ RefreshMsgDelivered
    \/ ResolveSelection

ResolveSpec == ResolveInit /\ [][ResolveNext]_vars

\* ------------------------------------------------------------ watcher.Watch

\* Watch is called; the start time it fetches first only feeds its output.
WatchInit ==
    /\ wPc = "start"
    /\ wResp = TransportFailure
    /\ wOut = NoCheck
    /\ wCheckTick = FALSE
    /\ wCountTick = FALSE
    /\ wChecks = 0
    /\ wRet = NoReturn
    /\ MonitorOff
    /\ PickerOff
    /\ MatchOff
    /\ SetupOff
    /\ ConfigOff
    /\ WindowOff
    /\ ViewOff
    /\ RefilterOff

WatchFrame == UNCHANGED <<monitorVars, pickerVars, matchVars, setupVars, mergeCall, reqKeys, viewCall, refilterCall>>

\* "Check immediately first": an error is returned, a status is returned,
\* otherwise the tickers are created and the loop is entered.
WatchFirstCheck ==
    /\ wPc = "start"
    /\ \E resp \in ResponsePool :
          /\ wResp' = resp
          /\ wOut' = CheckJobStatus(resp)
    /\ wChecks' = 1
    /\ wPc' = IF wOut'.err # "none" \/ ~wOut'.status.isNil THEN "returned" ELSE "wait"
    /\ wRet' = IF wOut'.err # "none"
               THEN [returned |-> TRUE, status |-> NilJobStatus, err |-> wOut'.err]
               ELSE IF ~wOut'.status.isNil
               THEN [returned |-> TRUE, status |-> wOut'.status, err |-> "none"]
               ELSE wRet
    /\ UNCHANGED <<wCheckTick, wCountTick>>
    /\ WatchFrame

\* checkTicker sends on its channel (capacity 1).
CheckTickFires ==
    /\ wPc = "wait"
    /\ ~wCheckTick
    /\ wChecks < MaxChecks
    /\ wCheckTick' = TRUE
    /\ UNCHANGED <<wPc, wResp, wOut, wCountTick, wChecks, wRet>>
    /\ WatchFrame

\* countdownTicker sends on its channel (capacity 1).
CountdownTickFires ==
    /\ wPc = "wait"
    /\ ~wCountTick
    /\ wCountTick' = TRUE
    /\ UNCHANGED <<wPc, wResp, wOut, wCheckTick, wChecks, wRet>>
    /\ WatchFrame

\* select: case t := <-checkTicker.C
WatchCheckTick ==
    /\ wPc = "wait"
    /\ wCheckTick
    /\ wCheckTick' = FALSE
    /\ \E resp \in ResponsePool :
          /\ wResp' = resp
          /\ wOut' = CheckJobStatus(resp)
    /\ wChecks' = wChecks + 1
    /\ wPc' = IF wOut'.err # "none" THEN AfterFailedCheck
              ELSE IF ~wOut'.status.isNil THEN "returned"
              ELSE "wait"
    /\ wRet' = IF wPc' = "returned"
               THEN [returned |-> TRUE, status |-> wOut'.status, err |-> "none"]
               ELSE wRet
    /\ UNCHANGED wCountTick
    /\ WatchFrame

\* select: case <-countdownTicker.C: printCountdown only.
WatchCountdownTick ==
    /\ wPc = "wait"
    /\ wCountTick
    /\ wCountTick' = FALSE
    /\ UNCHANGED <<wPc, wResp, wOut, wCheckTick, wChecks, wRet>>
    /\ WatchFrame

WatchNext ==
    \/ WatchFirstCheck
    \/ CheckTickFires
    \/ CountdownTickFires
    \/ WatchCheckTick
    \/ WatchCountdownTick

WatchSpec == WatchInit /\ [][WatchNext]_vars

\* ------------------------------------------------------ MergeConfig on its own

ConfigInit ==
    /\ mergeCall \in [cli : ConfigsOf("cli"), env : ConfigsOf("env"),
                      file : ConfigsOf("file"), defaults : DefaultsPool,
                      done : {FALSE}, result : {NilConfig}]
    /\ MonitorOff
    /\ PickerOff
    /\ MatchOff
    /\ SetupOff
    /\ WatchOff
    /\ WindowOff
    /\ ViewOff
    /\ RefilterOff

ConfigCall ==
    /\ ~mergeCall.done
    /\ mergeCall' = [mergeCall EXCEPT
                        !.done = TRUE,
                        !.result = MergeConfig(mergeCall.cli, mergeCall.env,
                                               mergeCall.file, mergeCall.defaults)]
    /\ UNCHANGED <<monitorVars, pickerVars, matchVars, setupVars, watchVars, reqKeys, viewCall, refilterCall>>

ConfigNext == ConfigCall

ConfigSpec == ConfigInit /\ [][ConfigNext]_vars

\* ------------------------------------------------------------------ claims

\* How often the notification sink was invoked for entry i.
SinkCalls(i) == Cardinality({k \in 1..Len(sinkLog) : sinkLog[k].job = i})

HasFinishedStatus(i) == entries[i].status.isNil = FALSE /\ entries[i].status.Finished = TRUE

ProbeInFlight(i) == task[i].st \in {"fetch", "locking", "crit"}

\* The main goroutine is past checkAllStatuses of the current round.
PastRound == pc \in {"notify", "print", "loop", "select", "done", "interrupted"}

\* C1: for every entry the notified flag never goes back to false (so it
\* goes false->true at most once), it is set only when the entry's status is
\* finished, the sink has been invoked once for a notified entry and never
\* for any other, and once a round's notifyCompletions has run every
\* finished entry has had its one notification.
C1_NotifiedOnce ==
    /\ [](\A i \in Indices :
            /\ entries[i].notified => HasFinishedStatus(i)
            /\ SinkCalls(i) = (IF entries[i].notified THEN 1 ELSE 0)
            /\ (pc \in {"print", "loop", "select", "done", "interrupted"}
                  /\ HasFinishedStatus(i)) => SinkCalls(i) = 1)
    /\ [][\A i \in Indices : entries[i].notified => entries'[i].notified]_vars

C1_Witness ==
    /\ pc = "done"
    /\ round >= 2
    /\ Len(entries) >= 2
    /\ \A i \in Indices : entries[i].notified /\ SinkCalls(i) = 1

\* C2 as stated: the loop ends with the completion summary only when every
\* entry has a finished status.
C2_Original == pc = "done" => \A i \in Indices : HasFinishedStatus(i)

\* C2 amended: the loop ends with the completion summary only when every
\* entry has a finished status or a recorded probe error, and it waits for a
\* further tick only while some entry has neither.
C2_DoneOrErrored ==
    /\ pc = "done" => \A i \in Indices : HasFinishedStatus(i) \/ entries[i].err
    /\ pc = "select" => \E i \in Indices : ~HasFinishedStatus(i) /\ ~entries[i].err

C2_Witness ==
    /\ pc = "done"
    /\ summary.printed
    /\ \E i \in Indices : entries[i].err /\ ~HasFinishedStatus(i)

\* C3: a goroutine that holds a finished result marks its own entry finished
\* whatever the probes of the other entries returned, and every round that
\* starts probes each entry that has a recorded error and no finished status.
C3_ErrorIsolated ==
    /\ [][\A i \in Indices :
            (task[i].st = "crit" /\ task[i].res \in {"passed", "failed"}
               /\ task'[i].st = "done")
            => (entries'[i].status.isNil = FALSE /\ entries'[i].status.Finished)]_vars
    /\ [][round' # round =>
            \A i \in Indices :
               (entries[i].err /\ ~HasFinishedStatus(i)) => task'[i].st = "fetch"]_vars

C3_Witness ==
    /\ round >= 2
    /\ pc = "wait"
    /\ \E a \in Indices, b \in Indices :
          /\ a # b
          /\ entries[a].err /\ ~HasFinishedStatus(a) /\ task[a].st = "fetch"
          /\ task[b].st = "done" /\ HasFinishedStatus(b)

\* The indices a selection map marks selected.
SelectedSet(sel) == {k \in DOMAIN sel : sel[k]}

\* A refreshMsg without error is being processed in this step.
RefreshApplied ==
    /\ refreshCmd = "queued"
    /\ refreshCmd' = "none"
    /\ ~m'.refreshErr

\* C4: when a refresh completes successfully, the new selected set is exactly
\* the set of new item indices whose key is non-empty and equals the key of an
\* item that was selected just before; an item with an empty key is never
\* selected by the refresh.
C4_ReselectByKey ==
    [][RefreshApplied =>
         /\ SelectedSet(m'.selected) =
               { i \in 0..(Len(m'.items) - 1) :
                   /\ m'.items[i + 1].Key # ""
                   /\ \E j \in SelectedSet(m.selected) :
                         j < Len(m.items) /\ m.items[j + 1].Key = m'.items[i + 1].Key }
         /\ \A i \in SelectedSet(m'.selected) : m'.items[i + 1].Key # ""]_vars

C4_Witness ==
    /\ m.lastRefresh = "later"
    /\ refreshCmd = "none"
    /\ ~m.refreshErr
    /\ Len(m.items) >= 2
    /\ \E i \in SelectedSet(m.selected) : m.items[i + 1].Key # ""
    /\ \E i \in 0..(Len(m.items) - 1) :
          m.items[i + 1].Key = "" /\ i \notin SelectedSet(m.selected)
    /\ \A k \in DOMAIN m.selected : m.selected[k]

\* C5: in every state of the selector either filtered is empty and the cursor
\* is 0, or 0 <= cursor < len(filtered).
C5_CursorInBounds ==
    \/ (Len(m.filtered) = 0 /\ m.cursor = 0)
    \/ (0 <= m.cursor /\ m.cursor < Len(m.filtered))

C5_Witness ==
    /\ m.lastRefresh = "later"
    /\ Len(m.items) >= 2
    /\ m.query # <<>>
    /\ m.height # 0
    /\ Len(m.filtered) = 1
    /\ m.cursor = 0
    /\ m.filtered[1] = Len(m.items) - 1

\* q occurs in t as a contiguous substring.
IsSubstring(q, t) ==
    \E off \in 0..(Len(t) - Len(q)) : \A k \in 1..Len(q) : t[off + k] = q[k]

\* The characters of q occur in t in order.
IsSubsequence(q, t) ==
    \E f \in [1..Len(q) -> 1..Len(t)] :
        /\ \A k \in 1..Len(q) : t[f[k]] = q[k]
        /\ \A k \in 1..(Len(q) - 1) : f[k] < f[k + 1]

C7_Scenario ==
    /\ round <= Len(ScenarioOutcomes)
    /\ Len(sinkLog) <= Len(entries)
    /\ (pc = "loop" /\ round = Len(ScenarioOutcomes)) => allEntriesDone
    /\ pc = "done" =>
          /\ round = Len(ScenarioOutcomes)
          /\ Len(sinkLog) = 3
          /\ \A i \in Indices : SinkCalls(i) = 1
          /\ summary = [printed |-> TRUE, passed |-> 2, failed |-> 1, errored |-> 0]

C7_Witness == pc = "done" /\ round = 4 /\ Len(sinkLog) = 3

\* C8: a round issues a probe for exactly the entries whose status is nil or
\* not finished, probes are issued only when a round starts, and an entry
\* with a finished status never has a probe issued or in flight.
C8_ProbeOnlyUnfinished ==
    /\ [][round' # round =>
            \A i \in Indices : (task'[i].st = "fetch") <=> ~HasFinishedStatus(i)]_vars
    /\ [][\A i \in Indices :
            (~ProbeInFlight(i) /\ task'[i].st \in {"fetch", "locking", "crit"})
            => (round' = round + 1 /\ ~HasFinishedStatus(i))]_vars
    /\ [](\A i \in Indices : HasFinishedStatus(i) => ~ProbeInFlight(i))

C8_Witness ==
    /\ round >= 2
    /\ pc = "wait"
    /\ \E i \in Indices, j \in Indices :
          /\ HasFinishedStatus(i) /\ task[i].st = "idle"
          /\ task[j].st = "fetch"

\* C9 as stated: with an interrupt pending at the top-level wait, the next
\* step of the loop is the interrupted return, never a further poll round.
C9_Original ==
    [][(pc = "select" /\ sigPending) => pc' \in {"select", "interrupted"}]_vars

\* C9 amended: with an interrupt pending at the wait and no poll tick pending
\* with it, the next step of the loop is the interrupted return; once the
\* interrupt is received monitorJobs returns nil, no round or probe is started
\* and nothing of the entries, the sink or the table changes again.
C9_Interrupt ==
    /\ [][(pc = "select" /\ sigPending /\ ~tickPending)
            => pc' \in {"select", "interrupted"}]_vars
    /\ [][pc' = "interrupted" =>
            (pc \in {"select", "interrupted"}
               /\ UNCHANGED <<entries, task, round, sinkLog, table, summary>>)]_vars
    /\ [](pc = "interrupted" =>
            /\ ret = "nil"
            /\ ~summary.printed
            /\ \A i \in Indices : ~ProbeInFlight(i))

C9_Witness ==
    /\ pc = "interrupted"
    /\ round >= 2
    /\ \E i \in Indices : ~HasFinishedStatus(i)

\* C10: while notifyCompletions, printStatusTable or the termination check
\* run, and afterwards until the next round starts, no probe of the round is
\* in flight and the lock is free; the table printed last shows every entry
\* as the completed round left it.
C10_RoundAtomic ==
    /\ PastRound => (mu = 0 /\ \A i \in Indices : ~ProbeInFlight(i))
    /\ pc \in {"loop", "select", "done", "interrupted"} =>
          table = [i \in Indices |-> StatusLabel(entries[i])]

C10_Witness ==
    /\ pc = "loop"
    /\ Len(entries) >= 2
    /\ \A i \in Indices : task[i].st = "done"
    /\ \E i \in Indices : table[i] = "succeeded"
    /\ \E i \in Indices : table[i] = "failed (error)"

\* C11: at most one refresh is in flight: the model is refreshing exactly
\* while a refresh command runs or its message is queued; Ctrl+R received
\* while refreshing starts no command and leaves the model unchanged; and
\* refreshing turns false only when a refreshMsg is processed.
C11_SingleRefresh ==
    /\ [](m.refreshing <=> refreshCmd # "none")
    /\ [][(KeyCtrlR /\ m.refreshing) => UNCHANGED <<m, refreshCmd>>]_vars
    /\ [][(m.refreshing /\ ~m'.refreshing) =>
             (refreshCmd = "queued" /\ refreshCmd' = "none")]_vars

C11_Witness ==
    /\ m.refreshing
    /\ refreshCmd = "queued"
    /\ m.lastRefresh = "later"

\* A refreshMsg carrying an error is being processed in this step.
RefreshFailed ==
    /\ refreshCmd = "queued"
    /\ refreshCmd' = "none"
    /\ m'.refreshErr

\* C12: when a refresh completes with an error, items, selected, filtered,
\* cursor and query keep their values; only refreshing (now false) and
\* refreshErr (now set) change, and the selector keeps running without a
\* result.
C12_FailedRefreshKeepsState ==
    [][RefreshFailed =>
         /\ m'.items = m.items
         /\ m'.selected = m.selected
         /\ m'.filtered = m.filtered
         /\ m'.cursor = m.cursor
         /\ m'.query = m.query
         /\ m' = [m EXCEPT !.refreshing = FALSE, !.refreshErr = TRUE]
         /\ ~m'.refreshing
         /\ ~m'.quit /\ ~m'.done
         /\ ~exited'
         /\ runResult' = NoResult]_vars

C12_Witness ==
    /\ m.refreshErr
    /\ ~m.refreshing
    /\ refreshCmd = "none"
    /\ ~exited
    /\ SelectedSet(m.selected) # {}
    /\ m.query # <<>>
    /\ m.cursor > 0

\* The indices the filtered list shows.
FilteredSet(mdl) == {mdl.filtered[p] : p \in 1..Len(mdl.filtered)}

\* C13: an event that only changes the query (a rune appended, a backspace,
\* the ESC that clears a non-empty query) leaves the selection map as it
\* was; an item the query hides keeps its checked state and is among the
\* indices reported on confirm.
C13_SelectionSurvivesFilter ==
    /\ [][m'.query # m.query => m'.selected = m.selected]_vars
    /\ [][KeyEnter =>
             \A idx \in SelectedSet(m.selected) \ FilteredSet(m) :
                 ~runResult'.isNil /\ idx \in runResult'.indices]_vars

C13_Witness ==
    /\ exited
    /\ m.done
    /\ m.query # <<>>
    /\ \E idx \in SelectedSet(m.selected) :
          idx \notin FilteredSet(m) /\ idx \in runResult.indices
    /\ \E idx \in SelectedSet(m.selected) : idx \in FilteredSet(m)

\* Every filtered item of the model is selected.
FilteredAllChecked(mdl) == \A f \in FilteredSet(mdl) : Sel(mdl.selected, f)

\* No filtered item of the model is selected.
FilteredNoneChecked(mdl) == \A f \in FilteredSet(mdl) : ~Sel(mdl.selected, f)

\* C14: Ctrl+A deselects every filtered item when all of them were selected
\* and selects every filtered item otherwise; the selection state of the
\* items outside filtered, and cursor, query, items and filtered, stay as
\* they were.
C14_SelectAll ==
    [][KeyCtrlA =>
         /\ IF FilteredAllChecked(m)
            THEN FilteredNoneChecked(m')
            ELSE FilteredAllChecked(m')
         /\ \A k \in (0..(Len(m.items) - 1)) \ FilteredSet(m) :
               Sel(m'.selected, k) = Sel(m.selected, k)
         /\ m'.cursor = m.cursor
         /\ m'.query = m.query
         /\ m'.items = m.items
         /\ m'.filtered = m.filtered]_vars

C14_Witness ==
    /\ ~exited
    /\ m.query # <<>>
    /\ Len(m.items) >= 2
    /\ FilteredSet(m) # {}
    /\ \A f \in FilteredSet(m) : f \in DOMAIN m.selected /\ ~m.selected[f]
    /\ \E k \in (0..(Len(m.items) - 1)) \ FilteredSet(m) : Sel(m.selected, k)

\* C15, as stated: from every selector state, two Ctrl+A in a row return the
\* selection state of every filtered item to what it was.
C15_Original ==
    \A f \in FilteredSet(m) :
        Sel(UpdateKeyCtrlA(UpdateKeyCtrlA(m)).selected, f) = Sel(m.selected, f)

\* C15: two Ctrl+A in a row return the selection state of every filtered item
\* to what it was when the filtered items were all selected or all
\* unselected; when only some were selected the two leave every filtered
\* item unselected.
C15_ToggleTwice ==
    IF FilteredAllChecked(m) \/ FilteredNoneChecked(m)
    THEN \A f \in FilteredSet(m) :
            Sel(UpdateKeyCtrlA(UpdateKeyCtrlA(m)).selected, f) = Sel(m.selected, f)
    ELSE FilteredNoneChecked(UpdateKeyCtrlA(UpdateKeyCtrlA(m)))

C15_Witness ==
    /\ ~exited
    /\ Len(m.filtered) >= 2
    /\ FilteredNoneChecked(m)
    /\ \A f \in FilteredSet(m) : f \in DOMAIN m.selected
    /\ FilteredAllChecked(UpdateKeyCtrlA(m))

\* C16: ESC with a non-empty query empties the query, recomputes the filter
\* (every item passes the empty query) and does not exit; ESC with an empty
\* query, and Ctrl-C in any state, end the program as cancelled; after a
\* cancellation Run returns nil, whatever was selected.
C16_EscapeProtocol ==
    /\ [][(KeyEsc /\ m.query # <<>>) =>
             /\ m'.query = <<>>
             /\ m'.filtered = [p \in 1..Len(m.items) |-> p - 1]
             /\ m'.selected = m.selected
             /\ ~m'.quit /\ ~m'.done
             /\ ~exited'
             /\ runResult' = NoResult]_vars
    /\ [][((KeyEsc /\ m.query = <<>>) \/ KeyCtrlC) =>
             /\ m'.quit
             /\ exited'
             /\ runResult'.returned
             /\ runResult'.isNil
             /\ runResult'.indices = {}]_vars
    /\ []((exited /\ m.quit) =>
             (runResult.returned /\ runResult.isNil /\ runResult.indices = {}))

C16_Witness ==
    /\ exited
    /\ m.quit
    /\ m.refreshing
    /\ m.query # <<>>
    /\ SelectedSet(m.selected) # {}
    /\ runResult.returned
    /\ runResult.isNil

\* C17: on ENTER the result of Run is exactly the set of the indices that are
\* selected at that moment, each an index into the items of that moment:
\* selected items the query hides are included, indices toggled back to
\* unselected are not.
C17_ConfirmResult ==
    /\ [][KeyEnter =>
             /\ exited'
             /\ runResult'.returned
             /\ ~runResult'.isNil
             /\ runResult'.indices =
                   {idx \in 0..(Len(m.items) - 1) : Sel(m.selected, idx)}
             /\ m'.items = m.items
             /\ m'.selected = m.selected]_vars
    /\ []((exited /\ m.done) =>
             /\ ~runResult.isNil
             /\ runResult.indices =
                   {idx \in 0..(Len(m.items) - 1) : Sel(m.selected, idx)}
             /\ \A idx \in DOMAIN m.selected :
                   m.selected[idx] => idx < Len(m.items))

C17_Witness ==
    /\ exited
    /\ m.done
    /\ m.lastRefresh = "later"
    /\ \E idx \in DOMAIN m.selected : ~m.selected[idx] /\ idx \notin runResult.indices
    /\ \E idx \in runResult.indices : idx \notin FilteredSet(m)
    /\ runResult.indices # {}

\* C18: in every selector state with a non-empty filtered list, whatever the
\* cursor and the known or unknown terminal height, viewportStart() <= cursor
\* < viewportStart() + visibleLines(), viewportStart() >= 0, the window does
\* not start past len(filtered) - visibleLines() (0 when the list is shorter
\* than the window), and the cursor row is among the rendered rows.
C18_Viewport ==
    Len(m.filtered) > 0 =>
        /\ viewportStart(m) <= m.cursor
        /\ m.cursor < viewportStart(m) + visibleLines(m)
        /\ viewportStart(m) >= 0
        /\ viewportStart(m) <=
              (IF Len(m.filtered) - visibleLines(m) < 0 THEN 0
               ELSE Len(m.filtered) - visibleLines(m))
        /\ m.cursor \in RenderedRows(m)

C18_Witness ==
    /\ ~exited
    /\ m.height # 0
    /\ m.height - viewOverhead < 1
    /\ Len(m.filtered) >= 2
    /\ m.cursor = Len(m.filtered) - 1
    /\ visibleLines(m) = 1
    /\ viewportStart(m) = m.cursor
    /\ RenderedRows(m) = {m.cursor}

\* The fetch gave nothing to select from: it failed, returned no job, or
\* returned no job whose URL parses.
SetupFails(out) ==
    \/ out.err
    \/ Len(out.jobs) = 0
    \/ \A i \in 1..Len(out.jobs) : ParseURL(out.jobs[i].URL).err

\* C19: when the initial fetch fails, returns no job, or returns no job with
\* a parsable URL, runMonitor returns one error and neither the selector nor
\* the monitor loop is started (no probe, no notification); the selector is
\* started only when the fetch gave at least one parsable job, and then
\* nothing has been returned.
C19_SetupAborts ==
    /\ rmPc \in {"start", "fetched"} => (PickerOff /\ MonitorOff /\ rmErr = "none")
    /\ (rmPc \in {"selector", "returned"} /\ SetupFails(rmFetch)) =>
          /\ rmPc = "returned"
          /\ rmErr = (IF rmFetch.err THEN "failed to fetch prow jobs"
                      ELSE IF Len(rmFetch.jobs) = 0
                      THEN "no prow jobs found (try adjusting the filter parameters in the URL)"
                      ELSE "no valid prow job URLs found")
          /\ PickerOff
          /\ MonitorOff
          /\ task = <<>>
          /\ sinkLog = <<>>
    /\ (rmPc \in {"selector", "returned"} /\ ~SetupFails(rmFetch)) =>
          /\ rmPc = "selector"
          /\ rmErr = "none"
          /\ ~exited
          /\ Len(m.items) >= 1
          /\ Len(m.items) = Len(rmEntries)
          /\ MonitorOff

C19_Witness ==
    /\ rmPc = "returned"
    /\ rmErr = "no valid prow job URLs found"
    /\ Len(rmFetch.jobs) >= 2
    /\ \E i \in 1..Len(rmFetch.jobs) : ValidateURL(rmFetch.jobs[i].URL) = "ErrInvalidScheme"
    /\ \E i \in 1..Len(rmFetch.jobs) : ValidateURL(rmFetch.jobs[i].URL) = "ErrMissingPath"

\* The sink failed to deliver the notification of entry i.
DeliveryFailed(i) ==
    \E k \in 1..Len(sinkLog) : sinkLog[k].job = i /\ ~sinkLog[k].delivered

\* C20: a notification the sink fails to deliver does not stop the monitor:
\* notifyCompletions marks every finished, not yet notified entry as notified
\* whatever the sink did, touches nothing else and goes on to the table; an
\* entry whose delivery failed stays notified and is never sent again; the
\* loop then ends or waits by the entries' statuses alone, and monitorJobs
\* never returns an error.
C20_SinkFailureIgnored ==
    /\ [][NotifyCompletions =>
             /\ pc' = "print"
             /\ \A i \in Indices :
                   /\ entries'[i].notified =
                         (entries[i].notified \/ HasFinishedStatus(i))
                   /\ entries'[i].status = entries[i].status
                   /\ entries'[i].err = entries[i].err
             /\ UNCHANGED <<task, mu, round, table, summary, ret>>]_vars
    /\ [](\A i \in Indices :
             DeliveryFailed(i) => (entries[i].notified /\ SinkCalls(i) = 1))
    /\ [][(pc = "loop" /\ pc' # "loop") =>
             pc' = (IF \A i \in Indices : HasFinishedStatus(i) \/ entries[i].err
                    THEN "done" ELSE "select")]_vars
    /\ [](ret \in {"none", "nil"})

C20_Witness ==
    /\ pc = "done"
    /\ ret = "nil"
    /\ summary.printed
    /\ round >= 2
    /\ \E i \in Indices : DeliveryFailed(i) /\ entries[i].notified
    /\ \E i \in Indices : SinkCalls(i) = 1 /\ ~DeliveryFailed(i)

C22_Original ==
    pc \in {"loop", "select", "done", "interrupted"} =>
        \A i \in Indices :
            /\ table[i] =
                  (IF entries[i].err THEN "failed (error)"
                   ELSE IF ~HasFinishedStatus(i) THEN "running"
                   ELSE IF entries[i].status.Passed THEN "succeeded"
                   ELSE "failed")
            /\ (HasFinishedStatus(i) /\ entries[i].status.Passed) =>
                  table[i] = "succeeded"

\* The response is an HTTP 200 whose body is a readable, valid finished.json.
ValidFinished(resp) ==
    /\ resp.transport = "ok"
    /\ resp.code = 200
    /\ resp.readOk
    /\ resp.body.valid

\* C23: CheckJobStatus returns (nil, nil) for an HTTP 404; for an HTTP 200
\* with a valid finished.json a non-nil status with Finished true and Passed
\* equal to the document's passed field, and no error; for every other
\* outcome a nil status and an error. A non-nil status is always finished.
C23_ProbeContract ==
    wChecks >= 1 =>
        /\ (wResp.transport = "ok" /\ wResp.code = 404) =>
              (wOut.status.isNil /\ wOut.err = "none")
        /\ ValidFinished(wResp) =>
              /\ ~wOut.status.isNil
              /\ wOut.status.Finished
              /\ wResp.body.passed = "true" => wOut.status.Passed
              /\ wResp.body.passed = "false" => ~wOut.status.Passed
              /\ wOut.err = "none"
        /\ (~ValidFinished(wResp) /\ ~(wResp.transport = "ok" /\ wResp.code = 404)) =>
              (wOut.status.isNil /\ wOut.err # "none")
        /\ ~wOut.status.isNil => wOut.status.Finished

C23_Witness ==
    /\ wChecks >= 2
    /\ wPc = "wait"
    /\ wResp.transport = "ok"
    /\ wResp.code = 500
    /\ wResp.readOk
    /\ wResp.body.valid
    /\ wResp.body.passed = "true"
    /\ wOut.status.isNil
    /\ wOut.err = "unexpected status code"

\* The value a source provides for a string setting, "" when the source is
\* nil or leaves the setting empty.
Provided(src, setting) == IF src.isNil THEN "" ELSE src[setting]

\* The value of the highest-priority source providing a non-empty value for
\* the setting: CLI flags, then environment, then config file, then defaults.
ByPriority(call, setting) ==
    IF Provided(call.cli, setting) # "" THEN call.cli[setting]
    ELSE IF Provided(call.env, setting) # "" THEN call.env[setting]
    ELSE IF Provided(call.file, setting) # "" THEN call.file[setting]
    ELSE Provided(call.defaults, setting)

\* C24: for each of Dest, AnalyzeCmd and NtfyChannel, MergeConfig returns the
\* value of the highest-priority source that provides a non-empty value, in
\* the order CLI flags > environment > config file > defaults; nil sources are
\* skipped.
C24_ConfigPriority ==
    (mergeCall.done /\ ~mergeCall.result.isNil) =>
        \A setting \in {"Dest", "AnalyzeCmd", "NtfyChannel"} :
            mergeCall.result[setting] = ByPriority(mergeCall, setting)

C24_Witness ==
    /\ mergeCall.done
    /\ ~mergeCall.result.isNil
    /\ mergeCall.defaults.isNil
    /\ mergeCall.file.isNil
    /\ ~mergeCall.cli.isNil
    /\ ~mergeCall.env.isNil
    /\ mergeCall.result.Dest = "cli"
    /\ mergeCall.env.Dest = "env"
    /\ mergeCall.result.AnalyzeCmd = "env"
    /\ mergeCall.result.NtfyChannel = ""

\* Watch has returned the status of a check that found the job finished.
ReturnedFinished ==
    /\ wRet.returned
    /\ wRet.err = "none"
    /\ ~wRet.status.isNil
    /\ wRet.status.Finished
    /\ wRet.status = wOut.status

\* C25, as stated: no failed status check ends Watch; it returns only when a
\* check reports the job finished, and returns that status.
C25_Original == wPc = "returned" => ReturnedFinished

\* C25: a failed check on a poll tick never ends Watch, which keeps polling
\* on later ticks; a countdown tick makes no check; Watch returns the status
\* of the check that reports the job finished, or, when the immediate first
\* check fails, that check's error.
C25_WatchUntilDone ==
    /\ [][(wPc = "wait" /\ wChecks' # wChecks /\ wOut'.err # "none") =>
             (wPc' = "wait" /\ wRet' = NoReturn)]_vars
    /\ [][(wPc = "wait" /\ wPc' = "returned") =>
             (wCheckTick /\ ~wCheckTick' /\ wChecks' = wChecks + 1
                /\ wOut'.err = "none" /\ ~wOut'.status.isNil)]_vars
    /\ [][wChecks' # wChecks =>
             (wPc = "start" \/ (wPc = "wait" /\ wCheckTick /\ ~wCheckTick'))]_vars
    /\ [](wPc = "returned" =>
             \/ ReturnedFinished
             \/ /\ wChecks = 1
                /\ wRet.returned
                /\ wRet.status.isNil
                /\ wRet.err = wOut.err
                /\ wRet.err # "none")
    /\ [](wPc = "wait" => (wRet = NoReturn /\ wOut.status.isNil))

C25_Witness ==
    /\ wPc = "returned"
    /\ wChecks = 3
    /\ ReturnedFinished
    /\ ~wRet.status.Passed
    /\ wCountTick

\* C26: whenever runMonitor resolves the indices the selector returned, every
\* index is inside entries and names the entry of the item that was shown as
\* selected when the user confirmed; the resolution never panics.
C26_Original ==
    /\ rmPc # "panic"
    /\ (exited /\ rmPc \in {"selector", "monitor"}) =>
          \A idx \in runResult.indices :
             /\ idx < Len(rmEntries)
             /\ rmEntries[idx + 1].key = m.items[idx + 1].Key

\* The items of the refreshed list that carry key k.
NewItemsWithKey(k) == { i \in 0..(Len(m'.items) - 1) : m'.items[i + 1].Key = k }

\* C27: keys pressed while a refresh is in flight take effect (SPACE flips
\* the item under the cursor, DOWN moves the cursor, ENTER confirms), and a
\* successful refresh re-selects by key from the selection as it is when the
\* refresh completes: a key selected since the request is selected in every
\* new item that carries it, a key deselected since the request in none.
C27_KeysDuringRefresh ==
    /\ [](m.refreshing /\ Len(m.filtered) > 0 =>
             /\ Sel(UpdateKeySpace(m).selected, m.filtered[m.cursor + 1])
                   = ~Sel(m.selected, m.filtered[m.cursor + 1])
             /\ UpdateKeySpace(m).refreshing)
    /\ [](m.refreshing /\ m.cursor < Len(m.filtered) - 1 =>
             UpdateKeyDown(m).cursor = m.cursor + 1)
    /\ [][(KeyEnter /\ m.refreshing) => (exited' /\ ~runResult'.isNil)]_vars
    /\ [][RefreshApplied =>
             \A k \in OldSelectedKeys(m) \cup reqKeys :
                /\ (k \in OldSelectedKeys(m) \ reqKeys) =>
                      \A i \in NewItemsWithKey(k) : Sel(m'.selected, i)
                /\ (k \in reqKeys \ OldSelectedKeys(m)) =>
                      \A i \in NewItemsWithKey(k) : ~Sel(m'.selected, i)]_vars

\* A refresh has completed after k2 was selected and k1 deselected while it
\* was in flight: the new list keeps k2 selected and k1 not.
C27_Witness ==
    /\ m.lastRefresh = "later"
    /\ refreshCmd = "none"
    /\ ~m.refreshing
    /\ reqKeys = {"k1"}
    /\ \E i \in 0..(Len(m.items) - 1) :
          m.items[i + 1].Key = "k2" /\ Sel(m.selected, i)
    /\ \E i \in 0..(Len(m.items) - 1) :
          m.items[i + 1].Key = "k1" /\ ~Sel(m.selected, i)
    /\ \A i \in 0..(Len(m.items) - 1) :
          Sel(m.selected, i) <=> m.items[i + 1].Key = "k2"

\* The item indices two selector models can hold a selection bit for.
SelectionKeys(a, b) ==
    (0..(Len(a.items) - 1)) \cup DOMAIN a.selected \cup DOMAIN b.selected

\* Models a and b select the same items, except possibly those in skip.
SameSelection(a, b, skip) ==
    \A k \in SelectionKeys(a, b) \ skip : Sel(a.selected, k) = Sel(b.selected, k)

\* Models a and b agree on every field but the selection map.
SameButSelection(a, b) == [a EXCEPT !.selected = b.selected] = b

\* C28: SPACE flips the selection of the item filtered[cursor] and of no
\* other item, and leaves cursor, query, filtered and every other field as
\* they were; with an empty filtered list it changes nothing; pressed twice
\* it leaves every item selected as before.
C28_Toggle ==
    /\ Len(m.filtered) = 0 => UpdateKeySpace(m) = m
    /\ Len(m.filtered) > 0 =>
          /\ Sel(UpdateKeySpace(m).selected, m.filtered[m.cursor + 1])
                = ~Sel(m.selected, m.filtered[m.cursor + 1])
          /\ SameSelection(UpdateKeySpace(m), m, {m.filtered[m.cursor + 1]})
    /\ SameButSelection(UpdateKeySpace(m), m)
    /\ SameSelection(UpdateKeySpace(UpdateKeySpace(m)), m, {})
    /\ SameButSelection(UpdateKeySpace(UpdateKeySpace(m)), m)

\* SPACE was pressed twice on the second of two items that no query can
\* tell apart: the map holds that item alone, unselected again.
C28_Witness ==
    /\ m.lastRefresh = "start"
    /\ Len(m.items) = 2
    /\ \A i \in 1..2 : fuzzyMatch(<<"B">>, m.items[i].Label)
    /\ m.cursor = 1
    /\ DOMAIN m.selected = {1}
    /\ ~m.selected[1]

Min(a, b) == IF a < b THEN a ELSE b

Max(a, b) == IF a > b THEN a ELSE b

\* The test's model: twenty items and five visible rows.
TestViewport == Len(m.filtered) = 20 /\ m.height = viewOverhead + 5

\* C29: viewportStart is 0 when the cursor is below the number of visible
\* rows, and otherwise the smaller of cursor - rows + 1 and
\* max(len(filtered) - rows, 0); with five visible rows and twenty items the
\* cursors 0..4 give 0, cursor 5 gives 1 and cursor 19 gives 15.
C29_ViewportStart ==
    viewCall.done =>
       /\ viewCall.start =
             IF m.cursor < viewCall.lines THEN 0
             ELSE Min(m.cursor - viewCall.lines + 1,
                      Max(Len(m.filtered) - viewCall.lines, 0))
       /\ TestViewport =>
             /\ viewCall.lines = 5
             /\ m.cursor \in 0..4 => viewCall.start = 0
             /\ m.cursor = 5 => viewCall.start = 1
             /\ m.cursor = 19 => viewCall.start = 15

\* viewportStart has returned 15 for the cursor on the last of twenty items
\* with five visible rows.
C29_Witness ==
    /\ viewCall.done
    /\ TestViewport
    /\ m.cursor = 19
    /\ viewCall.start = 15

\* Model b is model a with its stored terminal size replaced by size.
ResizedTo(a, b, size) ==
    /\ b.height = size.Height
    /\ b.width = size.Width
    /\ [b EXCEPT !.height = a.height, !.width = a.width] = a

\* C30: visibleLines is len(filtered) while the terminal height is unknown
\* (0) and max(height - viewOverhead, 1) otherwise; a tea.WindowSizeMsg
\* stores its height and width and changes no other field of the model, nor
\* the refresh command, nor ends the program.
C30_VisibleLines ==
    /\ [](visibleLines(m) = IF m.height = 0 THEN Len(m.filtered)
                            ELSE Max(m.height - viewOverhead, 1))
    /\ [](\A size \in SizePool : ResizedTo(m, UpdateWindowSize(m, size), size))
    /\ [][Resize =>
             /\ \E size \in SizePool : ResizedTo(m, m', size)
             /\ UNCHANGED <<refreshCmd, exited, runResult>>]_vars

\* The terminal was resized to three rows, fewer than the overhead, after
\* the second of two items was selected: one row is visible and selection
\* and cursor are still there.
C30_Witness ==
    /\ m.height = 3
    /\ m.width = 40
    /\ visibleLines(m) = 1
    /\ Len(m.filtered) = 2
    /\ m.cursor = 1
    /\ Sel(m.selected, 1)
    /\ ~exited

\* The indices (0-based) of the items whose label matches the query.
MatchingIndices(mdl) ==
    { i \in 0..(Len(mdl.items) - 1) : fuzzyMatch(mdl.query, mdl.items[i + 1].Label) }

\* C31: in every state of the selector, filtered is the strictly ascending
\* sequence of exactly the indices i in 0..len(items)-1 whose label matches
\* the query; it holds no stale and no out-of-range index.
C31_FilterConsistent ==
    /\ \A p \in 1..Len(m.filtered) : m.filtered[p] \in MatchingIndices(m)
    /\ \A i \in MatchingIndices(m) : \E p \in 1..Len(m.filtered) : m.filtered[p] = i
    /\ \A p \in 1..(Len(m.filtered) - 1) : m.filtered[p] < m.filtered[p + 1]

\* A refresh has replaced the items and a query is typed: of the two items
\* the query hides the first.
C31_Witness ==
    /\ m.lastRefresh = "later"
    /\ ~exited
    /\ m.query = <<"B">>
    /\ Len(m.items) = 2
    /\ m.filtered = <<1>>

\* C32: calling refilter a second time, items and query unchanged, leaves the
\* filtered sequence and the cursor the first call produced.
C32_RefilterIdempotent ==
    refilterCall.calls = 2 =>
       /\ m.filtered = refilterCall.filtered
       /\ m.cursor = refilterCall.cursor

\* refilter was called twice on two items of which the query hides the
\* second, with the cursor on that item: the first call rebuilt the list
\* and clamped the cursor.
C32_Witness ==
    /\ refilterCall.calls = 2
    /\ m.query = <<"B">>
    /\ Len(m.items) = 2
    /\ m.filtered = <<0>>
    /\ m.cursor = 0

\* C33: the first round of probes starts at once, without a poll tick being
\* received, and the loop never waits before it has run; when every entry is
\* finished after the first round the loop returns instead of waiting for a
\* tick; after the first round a round starts exactly when a poll tick is
\* received, one round per tick.
C33_FirstRoundImmediate ==
    /\ [](pc # "start" => round >= 1)
    /\ [](pc = "select" => \E i \in Indices : ~HasFinishedStatus(i))
    /\ [][round = 0 /\ round' # 0 =>
             round' = 1 /\ pc = "start" /\ tickPending' = tickPending]_vars
    /\ [][(pc = "loop" /\ pc' # "loop" /\ \A i \in Indices : HasFinishedStatus(i)) =>
             pc' = "done" /\ round' = round /\ tickPending' = tickPending]_vars
    /\ [][round >= 1 =>
             ((tickPending /\ ~tickPending') <=> round' = round + 1)]_vars
    /\ [][round >= 1 /\ round' # round => round' = round + 1]_vars

\* monitorJobs has returned after its first round: both entries finished in
\* it, and no poll tick was received or is pending.
C33_Witness ==
    /\ pc = "done"
    /\ round = 1
    /\ ~tickPending
    /\ Len(entries) = 2
    /\ \A i \in Indices : HasFinishedStatus(i) /\ ~entries[i].err

\* The status of entry i is written in this step.
StatusWritten(i) == entries'[i].status # entries[i].status

\* The goroutine of entry i leaves its critical section in this step.
LeavesCritical(i) == task[i].st = "crit" /\ task'[i].st = "done"

\* C34: the status of an entry is written at most once, from nil to a
\* finished status, by its own probe returning finished; a finished status
\* never changes afterwards, and a probe that returns 'still running' or an
\* error leaves the status as it was.
C34_StatusOnce ==
    /\ [](\A i \in Indices : entries[i].status.isNil \/ entries[i].status.Finished)
    /\ [][\A i \in Indices :
             StatusWritten(i) =>
                /\ entries[i].status.isNil
                /\ ~entries'[i].status.isNil /\ entries'[i].status.Finished
                /\ LeavesCritical(i)
                /\ entries'[i].status.Passed = (task[i].res = "passed")]_vars
    /\ [][\A i \in Indices :
             (LeavesCritical(i) /\ task[i].res \in {"running", "error"}) =>
                ~StatusWritten(i)]_vars
    /\ [][\A i \in Indices :
             HasFinishedStatus(i) => (~StatusWritten(i) /\ task'[i].st # "fetch")]_vars

\* In the second round an entry that finished before is skipped and keeps
\* its status while the probe of another has returned an error.
C34_Witness ==
    /\ round = 2
    /\ \E a, b \in Indices :
          /\ HasFinishedStatus(a) /\ entries[a].notified /\ task[a].st = "idle"
          /\ ~HasFinishedStatus(b) /\ entries[b].err /\ task[b].st = "done"

\* The goroutines inside the critical section of checkAllStatuses.
InCritical == {i \in Indices : task[i].st = "crit"}

\* C35: at most one goroutine of a round is inside the critical section, and
\* it is the holder of the mutex; while a round runs, entries is written only
\* by a goroutine leaving the critical section, which writes status or err of
\* its own entry and nothing else; the list keeps its length, and every other
\* position its entry.
C35_Serialized ==
    /\ [](Cardinality(InCritical) <= 1)
    /\ [](\A i \in Indices : (task[i].st = "crit") <=> (mu = i))
    /\ [][Len(entries') = Len(entries)]_vars
    /\ [][(pc = "wait" /\ entries' # entries) =>
             \E i \in InCritical :
                /\ task'[i].st = "done"
                /\ entries'[i].notified = entries[i].notified
                /\ \A j \in Indices \ {i} : entries'[j] = entries[j]]_vars

\* One goroutine is inside the critical section while another, its probe
\* returned, waits for the mutex.
C35_Witness ==
    /\ pc = "wait"
    /\ \E a, b \in Indices :
          /\ a # b
          /\ task[a].st = "crit" /\ mu = a
          /\ task[b].st = "locking"

\* monitorJobs is past notifyCompletions of the round: rendering the table,
\* testing for termination, waiting in the select, or returned.
AfterNotify == pc \in {"print", "loop", "select", "done", "interrupted"}

\* C36: whenever the loop renders the table, tests for termination, waits in
\* its select or has returned (completed or interrupted), every entry whose
\* status is finished is marked notified and its notification has been
\* handed to the sink.
C36_NotifiedBeforeWait ==
    AfterNotify =>
        \A i \in Indices :
            HasFinishedStatus(i) => (entries[i].notified /\ SinkCalls(i) >= 1)

\* The loop waits with an interrupt pending: a failed entry is notified, the
\* other one is still running.
C36_Witness ==
    /\ pc = "select"
    /\ sigPending
    /\ \E a, b \in Indices :
          /\ HasFinishedStatus(a) /\ ~entries[a].status.Passed
          /\ entries[a].notified /\ SinkCalls(a) = 1
          /\ ~HasFinishedStatus(b) /\ ~entries[b].err

\* C37: when the probe of an entry returns without error the entry stops
\* being treated as errored: its recorded error is gone, so an entry with a
\* finished status is not shown as 'failed (error)', and when monitorJobs
\* returns completed the entries counted as errored are those without a
\* finished status.
C37_Original ==
    /\ [][\A i \in Indices :
             (LeavesCritical(i) /\ task[i].res # "error") => ~entries'[i].err]_vars
    /\ [](pc \in {"loop", "select", "done", "interrupted"} =>
             \A i \in Indices :
                HasFinishedStatus(i) => table[i] # "failed (error)")
    /\ [](pc = "done" =>
             summary.errored = Cardinality({i \in Indices : ~HasFinishedStatus(i)}))

\* The entries for which a notification with the given outcome was sent.
NotifiedAs(passed) ==
    {i \in Indices : \E k \in 1..Len(sinkLog) :
                        sinkLog[k].job = i /\ sinkLog[k].passed = passed}

FinishedReturned(i) ==
    i \in Indices /\ task[i].st \in {"locking", "crit"}
                  /\ task[i].res \in {"passed", "failed"}

\* monitorJobs has returned with the completion summary, every entry
\* finished and notified exactly once.
CompletedAllNotified ==
    /\ pc = "done"
    /\ ret = "nil"
    /\ summary.printed
    /\ \A i \in Indices :
          HasFinishedStatus(i) /\ entries[i].notified /\ SinkCalls(i) = 1

\* C39: with no interrupt, the ticker firing and every probe returning, if
\* for every entry some probe returns finished then monitorJobs eventually
\* returns with the completion summary, every entry notified exactly once.
C39_Terminates ==
    (\A i \in 1..MaxEntries : <>(i > Len(entries) \/ FinishedReturned(i)))
        => <>CompletedAllNotified

\* monitorJobs has returned completed in its third round without any
\* interrupt: both entries finished, neither in the first round's table.
C39_Witness ==
    /\ CompletedAllNotified
    /\ round = 3
    /\ ~sigPending
    /\ Len(entries) = 2
    /\ Len(sinkLog) = 2
    /\ summary.passed + summary.failed + summary.errored = 2

\* The indices of the items of a model.
ItemIndices(mdl) == 0..(Len(mdl.items) - 1)

\* C40: in every state of the selector every index marked selected is an
\* index of the current items, also when a refresh has just replaced the
\* items by fewer; and every index Run returns on confirm is one of them.
C40_SelectionInRange ==
    /\ [](\A k \in DOMAIN m.selected : m.selected[k] => k \in ItemIndices(m))
    /\ [](runResult.returned => runResult.indices \subseteq ItemIndices(m))
    /\ [][Len(m'.items) < Len(m.items) =>
             \A k \in DOMAIN m'.selected : k \in ItemIndices(m')]_vars

\* Run has returned index 0 alone, confirmed on a single item that a refresh
\* delivered.
C40_Witness ==
    /\ exited
    /\ m.done
    /\ ~m.quit
    /\ m.lastRefresh = "later"
    /\ Len(m.items) = 1
    /\ runResult.returned
    /\ runResult.indices = {0}

====
